---- MODULE Spec2Model ----
(***************************************************************************)
(* A model of the ai-code-gate scripts: score.py (threshold resolution,    *)
(* signal extraction, piecewise-linear scoring, report and exit code) and  *)
(* score_store.py (the SQLite run history).                                *)
(*                                                                         *)
(* Python floats are modelled as exact extended rationals n/d with d >= 0: *)
(* d > 0 is a finite number, 1/0 is +inf, -1/0 is -inf and 0/0 is NaN.     *)
(* Comparisons and the special values follow IEEE 754 as Python exposes    *)
(* them.  Rounding is modelled where a result depends on it, SQLite's AVG  *)
(* in query_stats, with FloatBits significant bits standing for the 53 of  *)
(* a double; elsewhere the arithmetic is exact.                            *)
(***************************************************************************)
EXTENDS Integers, Sequences, FiniteSets, TLC

VARIABLES
    lerp_in,      \* arguments of the lerp_score call under test
    lerp_out,     \* <<>> before the call, <<result>> after it
    ext_call,     \* the signal extractor called last, with the inputs it read
    ext_result,   \* what that call returned or raised
    pc,           \* score.py main: the statement it is at
    args,         \* score.py main: the parsed command line
    cfg_file,     \* the configuration file main finds on disk
    cfg,          \* score.py main: what load_pyproject_config returned
    th,           \* score.py main: the resolved thresholds
    breakdown,    \* score.py main: the ScoreBreakdown
    report,       \* score.py main: what build_report rendered
    exc,          \* score.py main: the exception that escaped, "" if none
    exit_code,    \* score.py main: the exit status, -1 while running
    score_file,   \* the file --score-output names: <<>> while absent
    rows,         \* score_store.py: the score_runs table, in rowid order
    last_call,    \* score_store.py: the last call made and its arguments
    last_result,  \* score_store.py: what that call returned
    fuzz_pc,      \* run_fuzz.py main: the statement it is at
    fuzz_args,    \* run_fuzz.py main: the parsed command line
    targets_file, \* the file --targets names, as main finds it on disk
    harnesses,    \* run_fuzz.py main: the harness paths read from the file
    results,      \* run_fuzz.py main: the result dicts so far
    artifacts,    \* the crash-* files in the artifacts directory
    flag_file,    \* the file --score-output names: <<>> while absent
    report_file,  \* the file --output names: <<>> while absent
    fuzz_exc,     \* run_fuzz.py main: the exception that escaped, "" if none
    fuzz_exit,    \* run_fuzz.py main: the exit status, -1 while running
    notify_in,    \* notify.py: the command line and what the network does
    notify_out,   \* notify.py: <<>> before the run, <<how it ended>> after it
    detect_in,    \* detect_fuzz_targets.py: the command line, the files on disk
    detect_out,   \* detect_fuzz_targets.py: <<>>, then <<the output file>>
    hook_in,      \* precommit_complexity.py: the command line, what lizard does
    hook_out,     \* precommit_complexity.py: <<>>, then <<what check_files did>>
    writer,       \* score_store.py, concurrent record_run: each process's call
    db_lock,      \* the process holding the write lock of the database file, or 0
    db_schema,    \* whether the database file holds the score_runs table
    rows_before   \* the number of rows before the concurrent calls

lerpVars == <<lerp_in, lerp_out>>
extVars == <<ext_call, ext_result>>
scoreVars == <<pc, args, cfg_file, cfg, th, breakdown, report, exc, exit_code, score_file>>
storeVars == <<rows, last_call, last_result>>
fuzzVars == <<fuzz_pc, fuzz_args, targets_file, harnesses, results, artifacts,
              flag_file, report_file, fuzz_exc, fuzz_exit>>
notifyVars == <<notify_in, notify_out>>
detectVars == <<detect_in, detect_out>>
hookVars == <<hook_in, hook_out>>
writerVars == <<writer, db_lock, db_schema, rows_before>>
vars == <<lerpVars, extVars, scoreVars, storeVars, fuzzVars, notifyVars, detectVars, hookVars, writerVars>>

\* Optional values: None is <<>>, a given x is <<x>>.
None == <<>>
Some(x) == <<x>>

-----------------------------------------------------------------------------
(* Numbers *)

Abs(i) == IF i < 0 THEN -i ELSE i

Sign(i) == IF i < 0 THEN -1 ELSE IF i > 0 THEN 1 ELSE 0

RECURSIVE Gcd(_, _)
Gcd(a, b) == IF b = 0 THEN a ELSE Gcd(b, a % b)

\* The float n/d in lowest terms, d >= 0 (n/0 is an infinity or NaN).
Norm(n, d) ==
    IF d = 0 THEN [n |-> Sign(n), d |-> 0]
    ELSE LET g == Gcd(Abs(n), Abs(d))
         IN  [n |-> (Sign(d) * n) \div g, d |-> Abs(d) \div g]

Fin(i) == [n |-> i, d |-> 1]
PInf == [n |-> 1, d |-> 0]
NInf == [n |-> -1, d |-> 0]
NaN == [n |-> 0, d |-> 0]
Half == [n |-> 1, d |-> 2]

\* What a raising ZeroDivisionError leaves in place of a float.
ZeroDivisionError == [n |-> 0, d |-> -1]

IsNaN(x) == x.d = 0 /\ x.n = 0
IsFinite(x) == x.d > 0

Neg(x) == [n |-> -(x.n), d |-> x.d]

\* x >= y on floats: false when either side is NaN.
GE(x, y) ==
    /\ ~IsNaN(x)
    /\ ~IsNaN(y)
    /\ IF x.d = 0 /\ y.d = 0 THEN x.n >= y.n ELSE x.n * y.d >= y.n * x.d

\* x < y on floats: false when either side is NaN.
LT(x, y) ==
    /\ ~IsNaN(x)
    /\ ~IsNaN(y)
    /\ IF x.d = 0 /\ y.d = 0 THEN x.n < y.n ELSE x.n * y.d < y.n * x.d

GT(x, y) == LT(y, x)

Add(x, y) == Norm(x.n * y.d + y.n * x.d, x.d * y.d)

Sub(x, y) == Norm(x.n * y.d - y.n * x.d, x.d * y.d)

Mul(x, y) == Norm(x.n * y.n, x.d * y.d)

\* Python's float division: a zero divisor raises, everything else is IEEE.
Div(x, y) ==
    IF y.d > 0 /\ y.n = 0 THEN ZeroDivisionError
    ELSE Norm(x.n * y.d * Sign(y.n), x.d * Abs(y.n))

\* Significant bits of the floats whose rounding is modelled.
FloatBits == 6

RECURSIVE Pow2(_)
Pow2(k) == IF k = 0 THEN 1 ELSE 2 * Pow2(k - 1)

AbsVal(x) == [n |-> Abs(x.n), d |-> x.d]

RECURSIVE RoundScaled(_, _, _, _)
\* The positive a/d * sn/sd rounded to FloatBits significant bits, ties to
\* even: a/d is first brought into [2^(FloatBits-1), 2^FloatBits).
RoundScaled(a, d, sn, sd) ==
    IF a < Pow2(FloatBits - 1) * d THEN RoundScaled(2 * a, d, sn, 2 * sd)
    ELSE IF a >= Pow2(FloatBits) * d THEN RoundScaled(a, 2 * d, 2 * sn, sd)
    ELSE LET q == a \div d
             r == a % d
             up == 2 * r > d \/ (2 * r = d /\ q % 2 = 1)
         IN  Norm((IF up THEN q + 1 ELSE q) * sn, sd)

\* x as the nearest float: zero, the infinities and NaN are themselves.
RoundFloat(x) ==
    IF x.d = 0 \/ x.n = 0 THEN x
    ELSE LET r == RoundScaled(Abs(x.n), x.d, 1, 1)
         IN  IF x.n < 0 THEN Neg(r) ELSE r

FloatAdd(x, y) == RoundFloat(Add(x, y))
FloatDiv(x, y) == RoundFloat(Div(x, y))

-----------------------------------------------------------------------------
(* score.py: lerp_score *)

\* lerp_score with the inversion applied to the value only.
lerp_score_value_only(value0, excellent, acceptable, poor, max_pts, invert) ==
    LET value == IF invert THEN Neg(value0) ELSE value0
    IN  IF GE(value, excellent) THEN max_pts
        ELSE IF GE(value, acceptable)
             THEN Add(Mul(max_pts, Half),
                      Mul(Mul(max_pts, Half),
                          Div(Sub(value, acceptable), Sub(excellent, acceptable))))
        ELSE IF GE(value, poor)
             THEN Mul(Mul(max_pts, Half), Div(Sub(value, poor), Sub(acceptable, poor)))
        ELSE Fin(0)

\* lerp_score with the first two tests strict, so that a value equal to a
\* threshold falls through to the branch below it.
lerp_score_strict_tests(value0, excellent0, acceptable0, poor0, max_pts, invert) ==
    LET value == IF invert THEN Neg(value0) ELSE value0
        excellent == IF invert THEN Neg(excellent0) ELSE excellent0
        acceptable == IF invert THEN Neg(acceptable0) ELSE acceptable0
        poor == IF invert THEN Neg(poor0) ELSE poor0
    IN  IF GT(value, excellent) THEN max_pts
        ELSE IF GE(value, acceptable)
             THEN LET frac == Div(Sub(value, acceptable), Sub(excellent, acceptable))
                  IN  IF frac = ZeroDivisionError THEN ZeroDivisionError
                      ELSE Add(Mul(max_pts, Half), Mul(Mul(max_pts, Half), frac))
        ELSE IF GE(value, poor)
             THEN LET frac == Div(Sub(value, poor), Sub(acceptable, poor))
                  IN  IF frac = ZeroDivisionError THEN ZeroDivisionError
                      ELSE Mul(Mul(max_pts, Half), frac)
        ELSE Fin(0)

lerp_score(value0, excellent0, acceptable0, poor0, max_pts, invert) ==
    LET value == IF invert THEN Neg(value0) ELSE value0
        excellent == IF invert THEN Neg(excellent0) ELSE excellent0
        acceptable == IF invert THEN Neg(acceptable0) ELSE acceptable0
        poor == IF invert THEN Neg(poor0) ELSE poor0
    IN  IF GE(value, excellent) THEN max_pts
        ELSE IF GE(value, acceptable)
             THEN LET frac == Div(Sub(value, acceptable), Sub(excellent, acceptable))
                  IN  IF frac = ZeroDivisionError THEN ZeroDivisionError
                      ELSE Add(Mul(max_pts, Half), Mul(Mul(max_pts, Half), frac))
        ELSE IF GE(value, poor)
             THEN LET frac == Div(Sub(value, poor), Sub(acceptable, poor))
                  IN  IF frac = ZeroDivisionError THEN ZeroDivisionError
                      ELSE Mul(Mul(max_pts, Half), frac)
        ELSE Fin(0)


\* The three point budgets main passes as max_pts.
COMPLEXITY_MAX_PTS == 40
COVERAGE_MAX_PTS == 35
ANTIPATTERN_MAX_PTS == 25

\* The ordering the thresholds of a signal are meant to have.
Ordered(excellent, acceptable, poor, invert) ==
    IF invert
    THEN LT(excellent, acceptable) /\ LT(acceptable, poor)
    ELSE GT(excellent, acceptable) /\ GT(acceptable, poor)

-----------------------------------------------------------------------------
(* score.py: built-in defaults *)

DEFAULT_COMPLEXITY_EXCELLENT == 5
DEFAULT_COMPLEXITY_ACCEPTABLE == 10
DEFAULT_COMPLEXITY_POOR == 20
DEFAULT_COVERAGE_EXCELLENT == 90
DEFAULT_COVERAGE_ACCEPTABLE == 70
DEFAULT_COVERAGE_POOR == 40
DEFAULT_ANTIPATTERN_EXCELLENT == 0
DEFAULT_ANTIPATTERN_ACCEPTABLE == 2
DEFAULT_ANTIPATTERN_POOR == 5
DEFAULT_THRESHOLD == 70

\* The ten scalars main resolves, by the name of their argparse destination,
\* which is also their key in the dict load_pyproject_config returns.
ThresholdKeys ==
    {"threshold",
     "complexity_excellent", "complexity_acceptable", "complexity_poor",
     "coverage_excellent", "coverage_acceptable", "coverage_poor",
     "antipattern_excellent", "antipattern_acceptable", "antipattern_poor"}

Default(key) ==
    CASE key = "threshold" -> Fin(DEFAULT_THRESHOLD)
      [] key = "complexity_excellent" -> Fin(DEFAULT_COMPLEXITY_EXCELLENT)
      [] key = "complexity_acceptable" -> Fin(DEFAULT_COMPLEXITY_ACCEPTABLE)
      [] key = "complexity_poor" -> Fin(DEFAULT_COMPLEXITY_POOR)
      [] key = "coverage_excellent" -> Fin(DEFAULT_COVERAGE_EXCELLENT)
      [] key = "coverage_acceptable" -> Fin(DEFAULT_COVERAGE_ACCEPTABLE)
      [] key = "coverage_poor" -> Fin(DEFAULT_COVERAGE_POOR)
      [] key = "antipattern_excellent" -> Fin(DEFAULT_ANTIPATTERN_EXCELLENT)
      [] key = "antipattern_acceptable" -> Fin(DEFAULT_ANTIPATTERN_ACCEPTABLE)
      [] key = "antipattern_poor" -> Fin(DEFAULT_ANTIPATTERN_POOR)

-----------------------------------------------------------------------------
(* score.py: load_pyproject_config *)

\* A configuration file is a record [kind, entries]. kind is
\*   "absent"         no path that exists (also: no --config and none in cwd)
\*   "unreadable"     open() or tomllib.load() raises (syntax error, directory)
\*   "tool_not_table" the document's tool key is a scalar
\*   "gate_not_table" tool.ai-gate is a scalar
\*   "toml"           tool.ai-gate is a table (or missing: no entries)
\* entries maps paths below tool.ai-gate to TOML values [t, v]: t = "num" with
\* the number v, or t = "str" for a string that is not a number.
\* A path <<section>> of length 1 other than threshold is a section given as
\* a scalar.
GateSections == <<"complexity", "coverage", "antipatterns">>
SectionKeys == <<"excellent", "acceptable", "poor">>

\* The prefix the loader gives the keys of a section.
Prefixed(section, key) ==
    CASE section = "complexity" /\ key = "excellent" -> "complexity_excellent"
      [] section = "complexity" /\ key = "acceptable" -> "complexity_acceptable"
      [] section = "complexity" /\ key = "poor" -> "complexity_poor"
      [] section = "coverage" /\ key = "excellent" -> "coverage_excellent"
      [] section = "coverage" /\ key = "acceptable" -> "coverage_acceptable"
      [] section = "coverage" /\ key = "poor" -> "coverage_poor"
      [] section = "antipatterns" /\ key = "excellent" -> "antipattern_excellent"
      [] section = "antipatterns" /\ key = "acceptable" -> "antipattern_acceptable"
      [] section = "antipatterns" /\ key = "poor" -> "antipattern_poor"

RecognisedPaths ==
    {<<GateSections[i], SectionKeys[j]>> : i \in 1..3, j \in 1..3}

\* Python's int() of a TOML value: truncation toward zero.
PyInt(x) == Fin(Sign(x.n) * (Abs(x.n) \div x.d))

\* The exception int(gate["threshold"]) raises, "" if none.
IntRaises(tv) ==
    IF tv.t = "str" THEN "ValueError"
    ELSE IF IsNaN(tv.v) THEN "ValueError"
    ELSE IF ~IsFinite(tv.v) THEN "OverflowError"
    ELSE ""

\* The exception float(sub[key]) raises, "" if none.
FloatRaises(tv) == IF tv.t = "str" THEN "ValueError" ELSE ""

\* The first exception the statements after the try block raise, "" if none.
ConfigRaises(file) ==
    LET e == file.entries
        bad_sections == {i \in 1..3 : <<GateSections[i]>> \in DOMAIN e}
        bad_keys == {p \in RecognisedPaths \cap DOMAIN e : FloatRaises(e[p]) # ""}
    IN  IF file.kind = "tool_not_table" THEN "AttributeError"
        ELSE IF file.kind = "gate_not_table" THEN "TypeError"
        ELSE IF file.kind # "toml" THEN ""
        ELSE IF <<"threshold">> \in DOMAIN e /\ IntRaises(e[<<"threshold">>]) # ""
             THEN IntRaises(e[<<"threshold">>])
        ELSE IF bad_sections # {} THEN "TypeError"
        ELSE IF bad_keys # {} THEN "ValueError"
        ELSE ""

\* The dict load_pyproject_config returns when it returns.
ConfigDict(file) ==
    LET e == file.entries
        keys == {k \in ThresholdKeys :
                    \/ k = "threshold" /\ <<"threshold">> \in DOMAIN e
                    \/ \E p \in RecognisedPaths \cap DOMAIN e : Prefixed(p[1], p[2]) = k}
        path(k) == CHOOSE p \in RecognisedPaths : Prefixed(p[1], p[2]) = k
    IN  IF file.kind # "toml" THEN [k \in {} |-> NaN]
        ELSE [k \in keys |->
                 IF k = "threshold" THEN PyInt(e[<<"threshold">>].v)
                 ELSE e[path(k)].v]

\* load_pyproject_config: [raised, result].
load_pyproject_config(file) ==
    IF ConfigRaises(file) # ""
    THEN [raised |-> ConfigRaises(file), result |-> [k \in {} |-> NaN]]
    ELSE [raised |-> "", result |-> ConfigDict(file)]

-----------------------------------------------------------------------------
(* score.py: main, threshold resolution *)

\* main.resolve with `truthiness' in place of `is not None'.
resolve_truthy(cli_val, cfg_dict, cfg_key, default) ==
    IF cli_val # None /\ cli_val[1].n # 0 THEN cli_val[1]
    ELSE IF cfg_key \in DOMAIN cfg_dict THEN cfg_dict[cfg_key]
    ELSE default

\* main.resolve (and the same expression written inline for threshold).
resolve(cli_val, cfg_dict, cfg_key, default) ==
    IF cli_val # None THEN cli_val[1]
    ELSE IF cfg_key \in DOMAIN cfg_dict THEN cfg_dict[cfg_key]
    ELSE default

NoThresholds == [k \in ThresholdKeys |-> NaN]
NoConfig == [k \in {} |-> NaN]
NoBreakdown ==
    [complexity_score |-> Fin(0), coverage_score |-> Fin(0), antipattern_score |-> Fin(0),
     complexity_detail |-> "", coverage_detail |-> "", antipattern_detail |-> "",
     warnings |-> <<>>]
NoReport == [status |-> "", findings_section |-> FALSE, findings |-> <<>>,
             merge_blocked |-> FALSE]

\* An exception nobody catches ends the interpreter with status 1.
Crash(e) ==
    /\ exc' = e
    /\ exit_code' = 1
    /\ pc' = "done"

\* main, line 466: cfg = load_pyproject_config(args.config).
LoadConfig ==
    /\ pc = "config"
    /\ LET r == load_pyproject_config(cfg_file)
       IN  IF r.raised # ""
           THEN Crash(r.raised) /\ UNCHANGED cfg
           ELSE /\ cfg' = r.result
                /\ pc' = "resolve"
                /\ UNCHANGED <<exc, exit_code>>
    /\ UNCHANGED <<args, cfg_file, th, breakdown, report, score_file>>
    /\ UNCHANGED <<lerpVars, extVars, storeVars, fuzzVars, notifyVars, detectVars, hookVars, writerVars>>

\* main, lines 468-490: the ten resolutions.
Resolve ==
    /\ pc = "resolve"
    /\ th' = [k \in ThresholdKeys |-> resolve(args.ov[k], cfg, k, Default(k))]
    /\ pc' = "complexity"
    /\ UNCHANGED <<args, cfg_file, cfg, breakdown, report, exc, exit_code, score_file>>
    /\ UNCHANGED <<lerpVars, extVars, storeVars, fuzzVars, notifyVars, detectVars, hookVars, writerVars>>

-----------------------------------------------------------------------------
(* score.py: signal extractors *)

Warning(kind, arg) == [kind |-> kind, arg |-> arg]

RECURSIVE SumSeq(_)
SumSeq(q) == IF q = <<>> THEN Fin(0) ELSE Add(Head(q), SumSeq(Tail(q)))

RECURSIVE SetToSeq(_)
\* The elements of a set of integers in ascending order.
SetToSeq(S) ==
    IF S = {} THEN <<>>
    ELSE LET m == CHOOSE x \in S : \A y \in S : x <= y
         IN  <<m>> \o SetToSeq(S \ {m})

\* A lizard run is [kind, lines]: kind is "not_installed" (FileNotFoundError),
\* "timeout" (TimeoutExpired), "oserror" (any other error starting the
\* process), "exit_error" (return code not 0 or 1) or "ok"; lines are the
\* non-empty lines of stdout, each [kind, cc] with kind "short" (fewer than 3
\* fields), "nonnumeric" (third field no float) or "func" (third field cc).
_measure_python_complexity(run) ==
    LET funcs == SetToSeq({i \in 1..Len(run.lines) : run.lines[i].kind = "func"})
        complexities == [i \in 1..Len(funcs) |-> run.lines[funcs[i]].cc]
        high == SetToSeq({i \in 1..Len(run.lines) :
                             /\ run.lines[i].kind = "func"
                             /\ GT(run.lines[i].cc, Fin(DEFAULT_COMPLEXITY_POOR))})
        warnings == [i \in 1..Len(high) |-> Warning("very_high_complexity", high[i])]
        result(v, d, w) == [raised |-> "", value |-> v, detail |-> d, warnings |-> w]
    IN  CASE run.kind = "not_installed" ->
                result(Fin(0), "lizard not installed", <<Warning("install_lizard", 0)>>)
          [] run.kind = "timeout" ->
                result(Fin(0), "lizard timed out", <<Warning("lizard_timed_out", 0)>>)
          [] run.kind = "oserror" ->
                [raised |-> "OSError", value |-> Fin(0), detail |-> "", warnings |-> <<>>]
          [] run.kind = "exit_error" -> result(Fin(0), "lizard error", <<>>)
          [] run.kind = "ok" /\ run.lines = <<>> ->
                result(Fin(0), "No Python files analysed", <<>>)
          [] run.kind = "ok" /\ run.lines # <<>> /\ complexities = <<>> ->
                result(Fin(0), "No functions found by lizard", <<>>)
          [] OTHER ->
                result(Div(SumSeq(complexities), Fin(Len(complexities))),
                       "avg cyclomatic complexity", warnings)

\* A JS/TS complexity file is [kind, avg]: kind is "not_given" (no
\* --js-complexity), "missing", "unparsable" (JSONDecodeError), "nonobject"
\* (JSON that is no object), "error" (an object with a truthy error),
\* "bad_avg" (avg_complexity is null or no number) or "ok" (avg_complexity avg).
_load_js_complexity(file) ==
    CASE file.kind \in {"not_given", "missing", "unparsable"} ->
            [raised |-> "", value |-> Fin(0), detail |-> ""]
      [] file.kind = "nonobject" ->
            [raised |-> "AttributeError", value |-> Fin(0), detail |-> ""]
      [] file.kind = "error" ->
            [raised |-> "", value |-> Fin(0), detail |-> "JS/TS analysis error"]
      [] file.kind = "bad_avg" ->
            [raised |-> "ValueError", value |-> Fin(0), detail |-> ""]
      [] OTHER ->
            [raised |-> "", value |-> file.avg, detail |-> "JS/TS avg complexity"]

measure_complexity(run, js_file) ==
    LET py == _measure_python_complexity(run)
        js == _load_js_complexity(js_file)
    IN  IF py.raised # "" THEN py
        ELSE IF js.raised # ""
             THEN [raised |-> js.raised, value |-> Fin(0), detail |-> "", warnings |-> <<>>]
        ELSE IF GT(js.value, Fin(0)) /\ GT(py.value, Fin(0))
             THEN [raised |-> "", value |-> Div(Add(py.value, js.value), Fin(2)),
                   detail |-> "Python | JS/TS", warnings |-> py.warnings]
        ELSE IF GT(js.value, Fin(0))
             THEN [raised |-> "", value |-> js.value, detail |-> js.detail,
                   warnings |-> <<>>]
        ELSE py

\* measure_coverage with a missing file counted as full coverage.
measure_coverage_missing_is_full(file) ==
    [raised |-> "", value |-> Fin(100), detail |-> "coverage.json not found"]

\* JSON values: [t, v] with t "absent" (no such key), "null", "num" (the
\* number v), "numstr" (a string float() accepts, of value v), "badstr" (a
\* string it refuses).
\* A coverage file is [kind, pct, disp]: kind is "missing", "unreadable"
\* (read_text raises OSError), "unparsable", "nonobject", "no_totals",
\* "totals_null" or "ok"; pct and disp are the JSON values of
\* totals.percent_covered and totals.percent_covered_display.
measure_coverage(file) ==
    LET pct == IF file.pct.t # "absent" THEN file.pct
               ELSE IF file.disp.t # "absent" THEN file.disp
               ELSE [t |-> "num", v |-> Fin(0)]
        result(v, d) == [raised |-> "", value |-> v, detail |-> d]
        raise(e) == [raised |-> e, value |-> Fin(0), detail |-> ""]
    IN  CASE file.kind = "missing" -> result(Fin(0), "coverage.json not found")
          [] file.kind = "unreadable" -> raise("OSError")
          [] file.kind = "unparsable" -> result(Fin(0), "Could not parse coverage.json")
          [] file.kind \in {"nonobject", "totals_null"} -> raise("AttributeError")
          [] file.kind = "no_totals" -> result(Fin(0), "branch+line coverage")
          [] file.kind = "ok" /\ pct.t = "null" -> raise("TypeError")
          [] file.kind = "ok" /\ pct.t = "badstr" ->
                result(Fin(0), "Could not parse coverage.json")
          [] OTHER -> result(pct.v, "branch+line coverage")

LOC_EXCLUDE_DIRS ==
    {"tests", "test", "scripts", "fuzz", ".venv", "venv", "node_modules", "__pycache__"}

\* _count_loc without the floor of 1.
_count_loc_no_floor(tree) ==
    LET counted == SetToSeq({i \in 1..Len(tree) :
                                ~(tree[i].parts # <<>> /\ tree[i].parts[1] \in LOC_EXCLUDE_DIRS)})
    IN  SumSeq([i \in 1..Len(counted) |-> Fin(tree[counted[i]].code_lines)]).n

\* A source tree is a sequence of .py files [parts, code_lines]: parts is the
\* path relative to the root, code_lines the number of lines that are neither
\* blank nor start with #.
_count_loc(tree) ==
    LET counted == SetToSeq({i \in 1..Len(tree) :
                                ~(tree[i].parts # <<>> /\ tree[i].parts[1] \in LOC_EXCLUDE_DIRS)})
        total == SumSeq([i \in 1..Len(counted) |-> Fin(tree[counted[i]].code_lines)]).n
    IN  IF total > 1 THEN total ELSE 1

Min(a, b) == IF a < b THEN a ELSE b

\* A findings file is [kind, n, bad]: kind is "missing", "unreadable",
\* "unparsable", "nonobject", "results_not_list" or "ok" (a results list of n
\* findings, n = 0 also when the key is absent); bad is the index of the first
\* finding whose message is no string (null, a number), 0 if there is none.
measure_antipatterns(file, tree) ==
    LET loc == _count_loc(tree)
        density == IF loc > 0 THEN Mul(Div(Fin(file.n), Fin(loc)), Fin(100)) ELSE Fin(0)
        shown == Min(file.n, 10)
        individual == [i \in 1..shown |-> Warning("finding", i)]
        warnings == IF file.n > 10
                    THEN Append(individual, Warning("more_findings", file.n - 10))
                    ELSE individual
        result(v, d, w) == [raised |-> "", value |-> v, detail |-> d, warnings |-> w]
        raise(e) == [raised |-> e, value |-> Fin(0), detail |-> "", warnings |-> <<>>]
    IN  CASE file.kind = "missing" -> result(Fin(0), "semgrep-results.json not found", <<>>)
          [] file.kind = "unreadable" -> raise("OSError")
          [] file.kind = "unparsable" -> result(Fin(0), "Could not parse semgrep results", <<>>)
          [] file.kind = "nonobject" -> raise("AttributeError")
          [] file.kind = "results_not_list" -> raise("TypeError")
          [] file.kind = "ok" /\ file.bad \in 1..shown -> raise("AttributeError")
          [] OTHER -> result(density, "anti-pattern findings", warnings)

-----------------------------------------------------------------------------
(* score.py: ScoreBreakdown.total, build_report, main *)

total(b) == Add(Add(b.complexity_score, b.coverage_score), b.antipattern_score)

\* The report: its status word, whether it has a Findings section, the lines
\* of that section and whether it ends with the "Merge blocked" instruction.
build_report(b, threshold) ==
    LET passed == GE(total(b), threshold)
    IN  [status |-> IF passed THEN "PASSED" ELSE "BLOCKED",
         findings_section |-> b.warnings # <<>>,
         findings |-> b.warnings,
         merge_blocked |-> ~passed]

\* main, lines 497-507.
MainComplexity(run, js_file) ==
    /\ pc = "complexity"
    /\ LET m == measure_complexity(run, js_file)
           score == lerp_score(m.value, th["complexity_excellent"],
                               th["complexity_acceptable"], th["complexity_poor"],
                               Fin(COMPLEXITY_MAX_PTS), TRUE)
       IN  IF m.raised # "" THEN Crash(m.raised) /\ UNCHANGED breakdown
           ELSE IF score = ZeroDivisionError
                THEN Crash("ZeroDivisionError") /\ UNCHANGED breakdown
           ELSE /\ breakdown' = [breakdown EXCEPT !.complexity_score = score,
                                                  !.complexity_detail = m.detail,
                                                  !.warnings = @ \o m.warnings]
                /\ pc' = "coverage"
                /\ UNCHANGED <<exc, exit_code>>
    /\ UNCHANGED <<args, cfg_file, cfg, th, report, score_file>>
    /\ UNCHANGED <<lerpVars, storeVars, fuzzVars, notifyVars, detectVars, hookVars, writerVars>>

MeasureComplexity(run, js_file) ==
    /\ MainComplexity(run, js_file)
    /\ UNCHANGED extVars

\* The same step with the analyzer run and the JS/TS file it read kept.
MeasureComplexityTraced(run, js_file) ==
    /\ MainComplexity(run, js_file)
    /\ ext_call' = [fn |-> "measure_complexity", run |-> run, js_file |-> js_file]
    /\ ext_result' = measure_complexity(run, js_file)

\* main, lines 510-519.
MeasureCoverage(file) ==
    /\ pc = "coverage"
    /\ LET m == measure_coverage(file)
           score == lerp_score(m.value, th["coverage_excellent"],
                               th["coverage_acceptable"], th["coverage_poor"],
                               Fin(COVERAGE_MAX_PTS), FALSE)
       IN  IF m.raised # "" THEN Crash(m.raised) /\ UNCHANGED breakdown
           ELSE IF score = ZeroDivisionError
                THEN Crash("ZeroDivisionError") /\ UNCHANGED breakdown
           ELSE /\ breakdown' = [breakdown EXCEPT !.coverage_score = score,
                                                  !.coverage_detail = m.detail]
                /\ pc' = "antipatterns"
                /\ UNCHANGED <<exc, exit_code>>
    /\ UNCHANGED <<args, cfg_file, cfg, th, report, score_file>>
    /\ UNCHANGED <<lerpVars, extVars, storeVars, fuzzVars, notifyVars, detectVars, hookVars, writerVars>>

\* main, lines 522-532.
MeasureAntipatterns(file, tree) ==
    /\ pc = "antipatterns"
    /\ LET m == measure_antipatterns(file, tree)
           score == lerp_score(m.value, th["antipattern_excellent"],
                               th["antipattern_acceptable"], th["antipattern_poor"],
                               Fin(ANTIPATTERN_MAX_PTS), TRUE)
       IN  IF m.raised # "" THEN Crash(m.raised) /\ UNCHANGED breakdown
           ELSE IF score = ZeroDivisionError
                THEN Crash("ZeroDivisionError") /\ UNCHANGED breakdown
           ELSE /\ breakdown' = [breakdown EXCEPT !.antipattern_score = score,
                                                  !.antipattern_detail = m.detail,
                                                  !.warnings = @ \o m.warnings]
                /\ pc' = "report"
                /\ UNCHANGED <<exc, exit_code>>
    /\ UNCHANGED <<args, cfg_file, cfg, th, report, score_file>>
    /\ UNCHANGED <<lerpVars, extVars, storeVars, fuzzVars, notifyVars, detectVars, hookVars, writerVars>>

\* f"{x:.2f}" read back by float(): x to the nearest hundredth, ties to
\* even; nan and the infinities are written and read back as themselves.
format_2f(x) ==
    IF x.d = 0 THEN x
    ELSE LET scaled == 100 * Abs(x.n)
             q == scaled \div x.d
             r == scaled % x.d
             up == 2 * r > x.d \/ (2 * r = x.d /\ q % 2 = 1)
         IN  Norm(Sign(x.n) * (IF up THEN q + 1 ELSE q), 100)

\* main, lines 534-549: the report is built and printed, and the total is
\* written to the --score-output file.  The other files it writes (--output,
\* --badge-output) are not part of the state.
Report ==
    /\ pc = "report"
    /\ report' = build_report(breakdown, th["threshold"])
    /\ score_file' = IF args.score_output THEN Some(format_2f(total(breakdown)))
                     ELSE score_file
    /\ pc' = "exit"
    /\ UNCHANGED <<args, cfg_file, cfg, th, breakdown, exc, exit_code>>
    /\ UNCHANGED <<lerpVars, extVars, storeVars, fuzzVars, notifyVars, detectVars, hookVars, writerVars>>

\* main, lines 551-552, and the return that follows.
Exit ==
    /\ pc = "exit"
    /\ exit_code' = IF args.fail_on_threshold /\ LT(total(breakdown), th["threshold"])
                    THEN 1 ELSE 0
    /\ pc' = "done"
    /\ UNCHANGED <<args, cfg_file, cfg, th, breakdown, report, exc, score_file>>
    /\ UNCHANGED <<lerpVars, extVars, storeVars, fuzzVars, notifyVars, detectVars, hookVars, writerVars>>

-----------------------------------------------------------------------------
(* score_store.py *)

\* The table as a connection sees it: CREATE TABLE IF NOT EXISTS and CREATE
\* INDEX IF NOT EXISTS leave an existing table as it is.
get_connection(table) == table

\* The row record_run inserts: AUTOINCREMENT gives it the next rowid.
NewRow(table, now, run) ==
    [id |-> IF table = <<>> THEN 1 ELSE table[Len(table)].id + 1,
     recorded_at |-> now,
     repo |-> run.repo,
     branch |-> run.branch,
     pr |-> run.pr,
     sha |-> run.sha,
     score |-> run.score,
     passed |-> IF GE(run.score, run.threshold) THEN 1 ELSE 0,
     threshold |-> run.threshold,
     complexity_score |-> run.complexity_score,
     coverage_score |-> run.coverage_score,
     antipattern_score |-> run.antipattern_score]

\* record_run numbering the runs of each repository from 1.
record_run_numbered_per_repo(table, now, run) ==
    LET t == get_connection(table)
        same == {i \in 1..Len(t) : t[i].repo = run.repo}
    IN  Append(t, [NewRow(t, now, run) EXCEPT !.id = Cardinality(same) + 1])

\* record_run with INSERT OR REPLACE on the latest row of the repo.
record_run_replace(table, now, run) ==
    LET t == get_connection(table)
        same == {i \in 1..Len(t) : t[i].repo = run.repo}
        last == CHOOSE i \in same : \A j \in same : j <= i
    IN  IF same = {} THEN Append(t, NewRow(t, now, run))
        ELSE [t EXCEPT ![last] = [NewRow(t, now, run) EXCEPT !.id = t[last].id]]

\* The table after record_run(db, ...) when datetime.now(UTC) reads `now'.
\* SQLite stores a nan as NULL, which the NOT NULL of score rejects: the
\* INSERT raises sqlite3.IntegrityError and no row is added.
record_run(table, now, run) ==
    LET t == get_connection(table)
    IN  IF IsNaN(run.score) THEN t ELSE Append(t, NewRow(t, now, run))

\* i comes before j in ORDER BY recorded_at DESC; rows of equal recorded_at
\* come out of the descending scan of idx_repo_recorded in descending rowid.
Before(t, i, j) ==
    \/ t[i].recorded_at > t[j].recorded_at
    \/ t[i].recorded_at = t[j].recorded_at /\ t[i].id > t[j].id

RECURSIVE OrderDesc(_, _)
\* The indices S of table t in ORDER BY recorded_at DESC.
OrderDesc(t, S) ==
    IF S = {} THEN <<>>
    ELSE LET first == CHOOSE i \in S : \A j \in S \ {i} : Before(t, i, j)
         IN  <<first>> \o OrderDesc(t, S \ {first})

\* SQLite's LIMIT: a negative limit is no limit.
Limit(q, limit) ==
    IF limit < 0 \/ limit >= Len(q) THEN q ELSE SubSeq(q, 1, limit)

Reversed(q) == [i \in 1..Len(q) |-> q[Len(q) + 1 - i]]

TrendColumns(r) ==
    [recorded_at |-> r.recorded_at, branch |-> r.branch, pr |-> r.pr, sha |-> r.sha,
     score |-> r.score, passed |-> r.passed, threshold |-> r.threshold]

\* query_trend without the WHERE repo = ? of its SELECT.
query_trend_all_repos(table, repo, limit) ==
    LET t == get_connection(table)
        sel == Limit(OrderDesc(t, 1..Len(t)), limit)
    IN  Reversed([k \in 1..Len(sel) |-> TrendColumns(t[sel[k]])])

query_trend(table, repo, limit) ==
    LET t == get_connection(table)
        sel == Limit(OrderDesc(t, {i \in 1..Len(t) : t[i].repo = repo}), limit)
    IN  Reversed([k \in 1..Len(sel) |-> TrendColumns(t[sel[k]])])

\* branch is None or Some(string); `if branch:' filters only on a non-empty one.
query_latest(table, repo, branch) ==
    LET t == get_connection(table)
        hits == IF branch # None /\ branch[1] # ""
                THEN {i \in 1..Len(t) : t[i].repo = repo /\ t[i].branch = branch[1]}
                ELSE {i \in 1..Len(t) : t[i].repo = repo}
        sel == Limit(OrderDesc(t, hits), 1)
    IN  IF sel = <<>> THEN None ELSE Some(t[sel[1]])

\* Python's round(x, 1) on an exact x: to the nearest tenth, ties to even.
Round1(x) ==
    LET scaled == 10 * x.n
        q == scaled \div x.d
        r == scaled % x.d
        up == 2 * r > x.d \/ (2 * r = x.d /\ q % 2 = 1)
    IN  Norm(IF up THEN q + 1 ELSE q, 10)

MaxOf(S) == CHOOSE x \in S : \A y \in S : GE(x, y)
MinOf(S) == CHOOSE x \in S : \A y \in S : GE(y, x)

\* The branch strings in the order of SQLite's BINARY collation.
BranchOrder == <<"", "main">>

RECURSIVE ScanOrder(_, _)
\* The rows S of table t in the order of idx_repo_branch, the index the
\* aggregate query of query_stats searches: by branch, then by rowid.
ScanOrder(t, S) ==
    IF S = {} THEN <<>>
    ELSE LET rank(i) == CHOOSE k \in 1..Len(BranchOrder) : BranchOrder[k] = t[i].branch
             first == CHOOSE i \in S :
                         \A j \in S \ {i} :
                             \/ rank(i) < rank(j)
                             \/ rank(i) = rank(j) /\ t[i].id < t[j].id
         IN  <<first>> \o ScanOrder(t, S \ {first})

RECURSIVE FloatSum(_)
\* SQLite's running sum of doubles: every addition rounds.
FloatSum(q) ==
    IF q = <<>> THEN Fin(0) ELSE FloatAdd(FloatSum(SubSeq(q, 1, Len(q) - 1)), q[Len(q)])

\* The row of aggregates the SELECT of query_stats returns for the rows
\* hits (at least one) of table t, with pass_rate added.
StatsRow(t, hits) ==
    LET n == Len(hits)
        scores == [k \in 1..n |-> t[hits[k]].score]
        passed == SumSeq([k \in 1..n |-> Fin(t[hits[k]].passed)]).n
    IN  [total_runs |-> n,
         avg_score |-> FloatDiv(FloatSum(scores), Fin(n)),
         best_score |-> MaxOf({scores[k] : k \in 1..n}),
         worst_score |-> MinOf({scores[k] : k \in 1..n}),
         passed_runs |-> passed,
         blocked_runs |-> n - passed,
         pass_rate |-> Round1(Mul(Div(Fin(passed), Fin(n)), Fin(100)))]

\* query_stats without the early return for a repo that has no rows.
query_stats_no_early_return(table, repo) ==
    LET t == get_connection(table)
        hits == ScanOrder(t, {i \in 1..Len(t) : t[i].repo = repo})
    IN  IF hits = <<>>
        THEN Some([total_runs |-> 0, avg_score |-> Fin(0), best_score |-> Fin(0),
                   worst_score |-> Fin(0), passed_runs |-> 0, blocked_runs |-> 0,
                   pass_rate |-> Fin(0)])
        ELSE Some(StatsRow(t, hits))

\* query_stats with the pass rate left as a fraction of 1.
query_stats_rate_as_fraction(table, repo) ==
    LET t == get_connection(table)
        hits == ScanOrder(t, {i \in 1..Len(t) : t[i].repo = repo})
        row == StatsRow(t, hits)
    IN  IF hits = <<>> THEN None
        ELSE Some([row EXCEPT !.pass_rate =
                       Round1(Div(Fin(row.passed_runs), Fin(row.total_runs)))])

\* query_stats: None stands for the empty dict.
query_stats(table, repo) ==
    LET t == get_connection(table)
        hits == ScanOrder(t, {i \in 1..Len(t) : t[i].repo = repo})
    IN  IF hits = <<>> THEN None ELSE Some(StatsRow(t, hits))

GetConnection ==
    /\ rows' = get_connection(rows)
    /\ last_call' = [op |-> "get_connection"]
    /\ last_result' = None
    /\ UNCHANGED <<lerpVars, extVars, scoreVars, fuzzVars, notifyVars, detectVars, hookVars, writerVars>>

RecordRun(now, run) ==
    /\ rows' = record_run(rows, now, run)
    /\ last_call' = [op |-> "record_run", run |-> run, now |-> now]
    /\ last_result' = IF IsNaN(run.score) THEN "IntegrityError"
                      ELSE rows'[Len(rows')].id
    /\ UNCHANGED <<lerpVars, extVars, scoreVars, fuzzVars, notifyVars, detectVars, hookVars, writerVars>>

QueryTrend(repo, limit) ==
    /\ rows' = get_connection(rows)
    /\ last_call' = [op |-> "query_trend", repo |-> repo, limit |-> limit]
    /\ last_result' = query_trend(rows, repo, limit)
    /\ UNCHANGED <<lerpVars, extVars, scoreVars, fuzzVars, notifyVars, detectVars, hookVars, writerVars>>

QueryLatest(repo, branch) ==
    /\ rows' = get_connection(rows)
    /\ last_call' = [op |-> "query_latest", repo |-> repo, branch |-> branch]
    /\ last_result' = query_latest(rows, repo, branch)
    /\ UNCHANGED <<lerpVars, extVars, scoreVars, fuzzVars, notifyVars, detectVars, hookVars, writerVars>>

QueryStats(repo) ==
    /\ rows' = get_connection(rows)
    /\ last_call' = [op |-> "query_stats", repo |-> repo]
    /\ last_result' = query_stats(rows, repo)
    /\ UNCHANGED <<lerpVars, extVars, scoreVars, fuzzVars, notifyVars, detectVars, hookVars, writerVars>>

-----------------------------------------------------------------------------
(* run_fuzz.py

   A text is the sequence of its characters.  A crash artifact is a record
   of its file name (a number: the names sort as the numbers do) and the run
   that wrote it, 0 for an invocation before this one and k for the k-th
   harness of this one. *)

NoFuzzArgs == [score_output |-> FALSE, output |-> FALSE, fail_on_crash |-> FALSE]
MissingFile == [kind |-> "missing", lines |-> <<>>]

\* str.lstrip, str.rstrip and str.strip on blanks.
RECURSIVE lstrip(_)
lstrip(s) == IF s # <<>> /\ Head(s) = " " THEN lstrip(Tail(s)) ELSE s

RECURSIVE rstrip(_)
rstrip(s) ==
    IF s # <<>> /\ s[Len(s)] = " " THEN rstrip(SubSeq(s, 1, Len(s) - 1)) ELSE s

strip(s) == rstrip(lstrip(s))

startswith(s, c) == s # <<>> /\ Head(s) = c

\* main, lines 143-147: the lines kept are stripped; the test for a comment
\* is made on the line as read.
read_harnesses(lines) ==
    LET keep(h) == strip(h) # <<>> /\ ~startswith(h, "#")
        kept == SelectSeq(lines, keep)
    IN  [i \in 1..Len(kept) |-> strip(kept[i])]

\* The crash-* files of the directory in sorted order: the first of them.
first_crash_file(dir) == CHOOSE a \in dir : \A b \in dir : a.name <= b.name

\* The directory after a run that wrote crash file `wrote` (<<>>: none).
after_run(dir, wrote, run_id) ==
    IF wrote = None THEN dir
    ELSE {a \in dir : a.name # wrote[1]} \cup {[name |-> wrote[1], by |-> run_id]}

\* run_harness.  proc is what subprocess.run did: it returned (with an exit
\* status, an output whose last 2000 characters hold "LibFuzzer: crash" or
\* not, and the crash file the harness wrote), it ran into the wall-clock
\* limit, or it raised another exception (the captured output is not valid
\* UTF-8, a directory cannot be made).
run_harness(harness, proc, dir, run_id) ==
    IF proc.kind = "raise"
    THEN [raised |-> "UnicodeDecodeError", result |-> None, dir |-> dir]
    ELSE IF proc.kind = "timeout"
    THEN [raised |-> "",
          result |-> Some([harness |-> harness, crashed |-> FALSE,
                           crash_input |-> None, timed_out |-> TRUE]),
          dir |-> dir]
    ELSE LET now == after_run(dir, proc.wrote, run_id)
             crashed == proc.returncode # 0 /\ proc.marker
         IN  [raised |-> "",
              result |-> Some([harness |-> harness, crashed |-> crashed,
                               crash_input |-> IF crashed /\ now # {}
                                               THEN Some(first_crash_file(now))
                                               ELSE None,
                               timed_out |-> FALSE]),
              dir |-> now]

\* build_report of run_fuzz.py: the table rows and the closing line.
fuzz_build_report(rs) ==
    LET crashes == {i \in 1..Len(rs) : rs[i].crashed}
        timeouts == {i \in 1..Len(rs) : rs[i].timed_out}
        row(r) == [harness |-> r.harness,
                   status |-> IF r.crashed THEN "CRASH"
                              ELSE IF r.timed_out THEN "Timeout" ELSE "Clean",
                   note |-> IF r.crashed
                            THEN (IF r.crash_input # None THEN "Input prefix"
                                  ELSE "Artifact saved")
                            ELSE IF r.timed_out THEN "Wall-clock exceeded"
                            ELSE "No crash within time budget"]
    IN  [ran |-> Len(rs),
         rows |-> [i \in 1..Len(rs) |-> row(rs[i])],
         closing |-> IF crashes # {} THEN "crashes found"
                     ELSE IF timeouts # {} THEN "timed out"
                     ELSE "No crashes found",
         count |-> IF crashes # {} THEN Cardinality(crashes)
                   ELSE Cardinality(timeouts)]

any_crash_or_timeout(rs) == \E i \in 1..Len(rs) : rs[i].crashed \/ rs[i].timed_out

\* main, line 161.
any_crash(rs) == \E i \in 1..Len(rs) : rs[i].crashed

\* main, lines 111-153: the command line, the targets file, the harness list.
FuzzStart ==
    /\ fuzz_pc = "start"
    /\ IF targets_file.kind = "missing"
       THEN /\ fuzz_exit' = 1
            /\ fuzz_pc' = "done"
            /\ UNCHANGED <<harnesses, flag_file>>
       ELSE /\ harnesses' = read_harnesses(targets_file.lines)
            /\ IF harnesses' = <<>>
               THEN /\ flag_file' = IF fuzz_args.score_output THEN Some("0")
                                    ELSE flag_file
                    /\ fuzz_exit' = 0
                    /\ fuzz_pc' = "done"
               ELSE /\ fuzz_pc' = "run"
                    /\ UNCHANGED <<flag_file, fuzz_exit>>
    /\ UNCHANGED <<fuzz_args, targets_file, results, artifacts, report_file, fuzz_exc>>
    /\ UNCHANGED <<lerpVars, extVars, scoreVars, storeVars, notifyVars, detectVars, hookVars, writerVars>>

\* main, lines 155-158: one turn of the loop over the harnesses.
FuzzRunHarness(proc) ==
    /\ fuzz_pc = "run"
    /\ Len(results) < Len(harnesses)
    /\ LET k == Len(results) + 1
           r == run_harness(harnesses[k], proc, artifacts, k)
       IN  IF r.raised # ""
           THEN /\ fuzz_exc' = r.raised
                /\ fuzz_exit' = 1
                /\ fuzz_pc' = "done"
                /\ UNCHANGED <<results, artifacts>>
           ELSE /\ results' = Append(results, r.result[1])
                /\ artifacts' = r.dir
                /\ fuzz_pc' = IF k = Len(harnesses) THEN "report" ELSE "run"
                /\ UNCHANGED <<fuzz_exc, fuzz_exit>>
    /\ UNCHANGED <<fuzz_args, targets_file, harnesses, flag_file, report_file>>
    /\ UNCHANGED <<lerpVars, extVars, scoreVars, storeVars, notifyVars, detectVars, hookVars, writerVars>>

\* main, lines 160-173: the report, the two files, the exit status.
FuzzReport ==
    /\ fuzz_pc = "report"
    /\ report_file' = IF fuzz_args.output THEN Some(fuzz_build_report(results))
                      ELSE report_file
    /\ flag_file' = IF fuzz_args.score_output
                    THEN Some(IF any_crash(results) THEN "1" ELSE "0")
                    ELSE flag_file
    /\ fuzz_exit' = IF fuzz_args.fail_on_crash /\ any_crash(results) THEN 1 ELSE 0
    /\ fuzz_pc' = "done"
    /\ UNCHANGED <<fuzz_args, targets_file, harnesses, results, artifacts, fuzz_exc>>
    /\ UNCHANGED <<lerpVars, extVars, scoreVars, storeVars, notifyVars, detectVars, hookVars, writerVars>>

-----------------------------------------------------------------------------
(* notify.py

   A run of notify.py is given by its command line and by what the network
   does with the request (net); it ends with an exit status, the payload
   built (<<>> if none), what send_webhook returned (<<>> if it did not
   return) and the exception that escaped main ("" if none). *)

NoNotifyArgs ==
    [webhook |-> "", type |-> "slack", score |-> Fin(0), threshold |-> Fin(0),
     pr |-> None, pr_url |-> "", only_on_failure |-> FALSE,
     net |-> [kind |-> "url_error", status |-> 0]]

\* The webhook values urllib.request.Request rejects with ValueError: those
\* with no scheme ("unknown url type").
MalformedUrls == {"", "not-a-url"}

\* build_slack_payload: the colour, the status word and the run text.
build_slack_payload(score, threshold, pr, pr_url) ==
    LET passed == GE(score, threshold)
    IN  [kind |-> "slack",
         passed |-> passed,
         status |-> IF passed THEN "PASSED" ELSE "BLOCKED",
         color |-> IF passed THEN "#2eb886" ELSE "#e01e5a",
         pr_text |-> IF pr # None /\ pr[1] # 0 /\ pr_url # "" THEN "link"
                     ELSE IF pr # None /\ pr[1] # 0 THEN "PR" ELSE "push",
         score |-> score,
         threshold |-> threshold]

\* build_generic_payload.
build_generic_payload(score, threshold, pr, pr_url) ==
    [kind |-> "generic",
     passed |-> GE(score, threshold),
     pr |-> pr,
     pr_url |-> pr_url,
     score |-> score,
     threshold |-> threshold]

\* send_webhook: Request(url, ...) is built before the try statement; inside
\* it a response gives status < 400, URLError and every other exception
\* give False.
send_webhook(url, net) ==
    IF url \in MalformedUrls THEN [raised |-> "ValueError", value |-> FALSE]
    ELSE IF net.kind = "response"
         THEN [raised |-> "", value |-> net.status < 400]
         ELSE [raised |-> "", value |-> FALSE]

\* main of notify.py.
notify_main(a) ==
    LET passed == GE(a.score, a.threshold)
        payload == IF a.type = "slack"
                   THEN build_slack_payload(a.score, a.threshold, a.pr, a.pr_url)
                   ELSE build_generic_payload(a.score, a.threshold, a.pr, a.pr_url)
        sent == send_webhook(a.webhook, a.net)
    IN  IF a.only_on_failure /\ passed
        THEN [exit_code |-> 0, raised |-> "", payload |-> None, ok |-> None]
        ELSE IF sent.raised # ""
        THEN [exit_code |-> 1, raised |-> sent.raised, payload |-> Some(payload),
              ok |-> None]
        ELSE [exit_code |-> 0, raised |-> "", payload |-> Some(payload),
              ok |-> Some(sent.value)]

NotifyMain ==
    /\ notify_out = None
    /\ notify_out' = Some(notify_main(notify_in))
    /\ UNCHANGED notify_in
    /\ UNCHANGED <<lerpVars, extVars, scoreVars, storeVars, fuzzVars, detectVars, hookVars, writerVars>>

-----------------------------------------------------------------------------
(* detect_fuzz_targets.py

   Texts are sequences of characters, as above.  A run is given by the
   lines of --changed, the targets file and the set of paths that exist. *)

NoDetectArgs == [changed |-> <<>>, targets |-> MissingFile, disk |-> {}]

\* str.split(): the maximal runs of characters other than blanks.
RECURSIVE split(_)
split(s) ==
    LET t == lstrip(s)
        n == CHOOSE k \in 1..(Len(t) + 1) :
                 /\ k = Len(t) + 1 \/ t[k] = " "
                 /\ \A j \in 1..(k - 1) : t[j] # " "
    IN  IF t = <<>> THEN <<>>
        ELSE <<SubSeq(t, 1, n - 1)>> \o split(SubSeq(t, n, Len(t)))

load_targets_two_or_more(file) ==
    IF file.kind = "missing" THEN <<>>
    ELSE LET stripped == [i \in 1..Len(file.lines) |-> strip(file.lines[i])]
             keep(l) == l # <<>> /\ ~startswith(l, "#") /\ Len(split(l)) >= 2
             kept == SelectSeq(stripped, keep)
         IN  [i \in 1..Len(kept) |-> <<split(kept[i])[1], split(kept[i])[2]>>]

\* load_targets: the (glob, harness) pairs of the lines that, once stripped,
\* are not empty, do not start with "#" and split into exactly two parts.
load_targets(file) ==
    IF file.kind = "missing" THEN <<>>
    ELSE LET stripped == [i \in 1..Len(file.lines) |-> strip(file.lines[i])]
             keep(l) == l # <<>> /\ ~startswith(l, "#") /\ Len(split(l)) = 2
             kept == SelectSeq(stripped, keep)
         IN  [i \in 1..Len(kept) |-> <<split(kept[i])[1], split(kept[i])[2]>>]

\* fnmatch.fnmatch on a POSIX system: "*" matches any run of characters, the
\* separator included, "?" matches one character, any other character
\* matches itself.
RECURSIVE fnmatch(_, _)
fnmatch(name, pat) ==
    IF pat = <<>> THEN name = <<>>
    ELSE IF Head(pat) = "*"
         THEN fnmatch(name, Tail(pat)) \/ (name # <<>> /\ fnmatch(Tail(name), pat))
    ELSE IF Head(pat) = "?"
         THEN name # <<>> /\ fnmatch(Tail(name), Tail(pat))
    ELSE name # <<>> /\ Head(name) = Head(pat) /\ fnmatch(Tail(name), Tail(pat))

matches_glob(file_path, glob) == fnmatch(file_path, glob)

\* The characters used, in code point order, and the order of str on texts.
CodePoints == <<" ", "#", "*", "/", "?", "a", "b", "f", "g", "s", "t">>
Ord(c) == CHOOSE i \in 1..Len(CodePoints) : CodePoints[i] = c

RECURSIVE TextLess(_, _)
TextLess(x, y) ==
    IF y = <<>> THEN FALSE
    ELSE IF x = <<>> THEN TRUE
    ELSE IF Head(x) = Head(y) THEN TextLess(Tail(x), Tail(y))
    ELSE Ord(Head(x)) < Ord(Head(y))

\* sorted() of a set of texts.
RECURSIVE sorted(_)
sorted(S) ==
    IF S = {} THEN <<>>
    ELSE LET m == CHOOSE x \in S : \A y \in S \ {x} : TextLess(x, y)
         IN  <<m>> \o sorted(S \ {m})

\* main: the lines of the output file.  The file is "\n".join(sorted(active))
\* followed by a newline when active is not empty, that is, one line for
\* each harness and no line at all when there is none.
detect_main(a) ==
    LET stripped == [i \in 1..Len(a.changed) |-> strip(a.changed[i])]
        changed_files == SelectSeq(stripped, LAMBDA f : f # <<>>)
        mappings == load_targets(a.targets)
        active == {mappings[m][2] : m \in
                      {m \in 1..Len(mappings) :
                          /\ \E c \in 1..Len(changed_files) :
                                matches_glob(changed_files[c], mappings[m][1])
                          /\ mappings[m][2] \in a.disk}}
    IN  sorted(active)

DetectMain ==
    /\ detect_out = None
    /\ detect_out' = Some(detect_main(detect_in))
    /\ UNCHANGED detect_in
    /\ UNCHANGED <<lerpVars, extVars, scoreVars, storeVars, fuzzVars, notifyVars, hookVars, writerVars>>

-----------------------------------------------------------------------------
(* precommit_complexity.py

   A run is given by the two thresholds, by whether the lizard binary is
   there and, for each path in turn, by what lizard did: it timed out or it
   printed lines.  A line is "short" (fewer than three fields),
   "nonnumeric" (a third field float() rejects) or "func" with the value cc
   of its third field. *)

NoHookArgs ==
    [max_complexity |-> 0, warn_complexity |-> 0, installed |-> FALSE, runs |-> <<>>]

\* The (path, line) pairs of one path's output at or beyond a limit.
RECURSIVE hook_scan(_, _, _, _)
hook_scan(runs, k, max_complexity, warn_complexity) ==
    IF k > Len(runs) THEN [violations |-> <<>>, warnings |-> <<>>]
    ELSE LET rest == hook_scan(runs, k + 1, max_complexity, warn_complexity)
             lines == IF runs[k].kind = "timeout" THEN <<>> ELSE runs[k].lines
             idx == [i \in 1..Len(lines) |-> i]
             isFunc(i) == lines[i].kind = "func"
             blocked(i) == isFunc(i) /\ GE(lines[i].cc, Fin(max_complexity))
             warned(i) == isFunc(i) /\ ~blocked(i)
                          /\ GE(lines[i].cc, Fin(warn_complexity))
             tag(q) == [i \in 1..Len(q) |-> [path |-> k, line |-> q[i]]]
         IN  [violations |-> tag(SelectSeq(idx, blocked)) \o rest.violations,
              warnings |-> tag(SelectSeq(idx, warned)) \o rest.warnings]

\* check_files: with the binary missing the first path returns 0 at once;
\* a path that timed out is skipped; a line counts as a violation when
\* cc >= max_complexity and else as a warning when cc >= warn_complexity.
check_files(a) ==
    LET found == hook_scan(a.runs, 1, a.max_complexity, a.warn_complexity)
    IN  IF a.runs # <<>> /\ ~a.installed
        THEN [returned |-> 0, violations |-> <<>>, warnings |-> <<>>, printed |-> FALSE]
        ELSE [returned |-> IF found.violations # <<>> THEN 1 ELSE 0,
              violations |-> found.violations,
              warnings |-> found.warnings,
              printed |-> TRUE]

\* main: the exit status is what check_files returned.
HookMain ==
    /\ hook_out = None
    /\ hook_out' = Some(check_files(hook_in))
    /\ UNCHANGED hook_in
    /\ UNCHANGED <<lerpVars, extVars, scoreVars, storeVars, fuzzVars, notifyVars, detectVars, writerVars>>

-----------------------------------------------------------------------------
(* score_store.py: record_run called by two processes on one database file.

   SQLite serialises the writers of a file with a lock on the file.  A
   connection takes the RESERVED lock when its first INSERT runs, one
   connection at a time; COMMIT writes the transaction to the file as one
   atomic step and releases the lock.  A connection that finds the lock
   taken sleeps and tries again, and gives up after the timeout of
   sqlite3.connect (5 seconds by default) with OperationalError. *)

Writers == {1, 2}

NoWriter ==
    [pc |-> "idle", run |-> None, now |-> 0, waited |-> FALSE, pending |-> None,
     result |-> None, raised |-> ""]

\* The lock granted to whoever asks, held or not.
can_reserve_always(lock, p) == TRUE

\* Whether SQLite grants process p the RESERVED lock of the file.
can_reserve(lock, p) == lock = 0

\* get_connection, lines 53-56: the file is opened, and created when absent;
\* no lock is taken.
WriterConnect(p) ==
    /\ writer[p].pc = "connect"
    /\ writer' = [writer EXCEPT ![p].pc = "schema"]
    /\ UNCHANGED <<db_lock, db_schema, rows_before>>
    /\ UNCHANGED <<lerpVars, extVars, scoreVars, storeVars, fuzzVars, notifyVars, detectVars, hookVars>>

\* get_connection, lines 57-59: each CREATE ... IF NOT EXISTS of SCHEMA is a
\* statement of its own.  With the table present it only reads the schema;
\* with the table absent it writes it under the lock.
WriterSchema(p) ==
    /\ writer[p].pc = "schema"
    /\ db_schema \/ can_reserve(db_lock, p)
    /\ db_schema' = TRUE
    /\ writer' = [writer EXCEPT ![p].pc = "insert"]
    /\ UNCHANGED <<db_lock, rows_before>>
    /\ UNCHANGED <<lerpVars, extVars, scoreVars, storeVars, fuzzVars, notifyVars, detectVars, hookVars>>

\* record_run, lines 81-104: the clock is read and the INSERT runs in a
\* transaction sqlite3 opens for it.  The INSERT takes the lock and gives the
\* row the next rowid of the table.
WriterInsert(p, now) ==
    /\ writer[p].pc = "insert"
    /\ can_reserve(db_lock, p)
    /\ db_lock' = p
    /\ writer' = [writer EXCEPT
                     ![p].pc = "commit",
                     ![p].now = now,
                     ![p].pending = Some(NewRow(get_connection(rows), now, writer[p].run[1]))]
    /\ UNCHANGED <<db_schema, rows_before>>
    /\ UNCHANGED <<lerpVars, extVars, scoreVars, storeVars, fuzzVars, notifyVars, detectVars, hookVars>>

\* record_run, line 84, with the lock taken by the other process: the busy
\* handler sleeps before the INSERT is tried again.
WriterBusyWait(p) ==
    /\ writer[p].pc = "insert"
    /\ ~can_reserve(db_lock, p)
    /\ ~writer[p].waited
    /\ writer' = [writer EXCEPT ![p].waited = TRUE]
    /\ UNCHANGED <<db_lock, db_schema, rows_before>>
    /\ UNCHANGED <<lerpVars, extVars, scoreVars, storeVars, fuzzVars, notifyVars, detectVars, hookVars>>

\* record_run, line 84, with the lock still taken when the timeout is over:
\* the INSERT raises OperationalError ("database is locked"), which leaves
\* record_run.
WriterBusyTimeout(p) ==
    /\ writer[p].pc = "insert"
    /\ ~can_reserve(db_lock, p)
    /\ writer[p].waited
    /\ writer' = [writer EXCEPT ![p].pc = "raised", ![p].raised = "OperationalError"]
    /\ UNCHANGED <<db_lock, db_schema, rows_before>>
    /\ UNCHANGED <<lerpVars, extVars, scoreVars, storeVars, fuzzVars, notifyVars, detectVars, hookVars>>

\* record_run, line 105: conn.commit() writes the row to the file and
\* releases the lock.
WriterCommit(p) ==
    /\ writer[p].pc = "commit"
    /\ rows' = Append(rows, writer[p].pending[1])
    /\ db_lock' = IF db_lock = p THEN 0 ELSE db_lock
    /\ writer' = [writer EXCEPT ![p].pc = "close"]
    /\ UNCHANGED <<last_call, last_result, db_schema, rows_before>>
    /\ UNCHANGED <<lerpVars, extVars, scoreVars, fuzzVars, notifyVars, detectVars, hookVars>>

\* record_run, lines 106-108: the rowid of the INSERT is returned.
WriterReturn(p) ==
    /\ writer[p].pc = "close"
    /\ writer' = [writer EXCEPT ![p].pc = "returned",
                                ![p].result = Some(writer[p].pending[1].id)]
    /\ UNCHANGED <<db_lock, db_schema, rows_before>>
    /\ UNCHANGED <<lerpVars, extVars, scoreVars, storeVars, fuzzVars, notifyVars, detectVars, hookVars>>

-----------------------------------------------------------------------------
(* The state of a script that is not running *)

LerpIdle ==
    /\ lerp_in = [value |-> Fin(0), excellent |-> Fin(0), acceptable |-> Fin(0),
                  poor |-> Fin(0), max_pts |-> Fin(0), invert |-> FALSE]
    /\ lerp_out = <<>>

NoArgs ==
    [ov |-> [k \in ThresholdKeys |-> None], fail_on_threshold |-> FALSE,
     score_output |-> FALSE]
AbsentFile == [kind |-> "absent", entries |-> <<>>]

ScoreIdle ==
    /\ pc = "idle"
    /\ args = NoArgs
    /\ cfg_file = AbsentFile
    /\ cfg = NoConfig
    /\ th = NoThresholds
    /\ breakdown = NoBreakdown
    /\ report = NoReport
    /\ score_file = None
    /\ exc = ""
    /\ exit_code = -1

ExtIdle ==
    /\ ext_call = [fn |-> "none"]
    /\ ext_result = None

StoreIdle ==
    /\ rows = <<>>
    /\ last_call = [op |-> "none"]
    /\ last_result = None

FuzzIdle ==
    /\ fuzz_pc = "idle"
    /\ fuzz_args = NoFuzzArgs
    /\ targets_file = MissingFile
    /\ harnesses = <<>>
    /\ results = <<>>
    /\ artifacts = {}
    /\ flag_file = None
    /\ report_file = None
    /\ fuzz_exc = ""
    /\ fuzz_exit = -1

NotifyIdle ==
    /\ notify_in = NoNotifyArgs
    /\ notify_out = None

DetectIdle ==
    /\ detect_in = NoDetectArgs
    /\ detect_out = None

HookIdle ==
    /\ hook_in = NoHookArgs
    /\ hook_out = None

WriterIdle ==
    /\ writer = [p \in Writers |-> NoWriter]
    /\ db_lock = 0
    /\ db_schema = FALSE
    /\ rows_before = 0

-----------------------------------------------------------------------------
(* lerp_score as a pure function: the inputs are drawn in Init, one call. *)

MaxTh == 4

LerpThresholds == {Fin(i) : i \in 0..MaxTh}
LerpValues == {Norm(k, 2) : k \in (-2)..(2 * MaxTh + 2)}
LerpMaxPts == {Fin(COMPLEXITY_MAX_PTS), Fin(COVERAGE_MAX_PTS), Fin(ANTIPATTERN_MAX_PTS)}

InitLerp ==
    /\ WriterIdle
    /\ lerp_in \in [value : LerpValues, excellent : LerpThresholds,
                    acceptable : LerpThresholds, poor : LerpThresholds,
                    max_pts : LerpMaxPts, invert : BOOLEAN]
    /\ lerp_out = <<>>
    /\ ExtIdle
    /\ FuzzIdle
    /\ NotifyIdle
    /\ DetectIdle
    /\ HookIdle
    /\ ScoreIdle
    /\ StoreIdle

LerpCall ==
    /\ lerp_out = <<>>
    /\ lerp_out' = <<lerp_score(lerp_in.value, lerp_in.excellent, lerp_in.acceptable,
                                lerp_in.poor, lerp_in.max_pts, lerp_in.invert)>>
    /\ UNCHANGED lerp_in
    /\ UNCHANGED <<extVars, scoreVars, storeVars, fuzzVars, notifyVars, detectVars, hookVars, writerVars>>

NextLerp == LerpCall

SpecLerp == InitLerp /\ [][NextLerp]_vars

-----------------------------------------------------------------------------
(* C1 *)

\* "x is at or beyond y", in the orientation of the call: x >= y when higher
\* is better, x <= y when lower is better. v is a rational, t an integer.
AtOrBeyond(v, t, invert) == IF invert THEN v.n <= t * v.d ELSE v.n >= t * v.d

\* The reference piecewise-linear function, written on the thresholds as given
\* (no negation), in integer arithmetic.
RefScore(in) ==
    LET v == in.value
        e == in.excellent.n
        a == in.acceptable.n
        p == in.poor.n
        m == in.max_pts.n
    IN  IF AtOrBeyond(v, e, in.invert) THEN Fin(m)
        ELSE IF v.n = a * v.d THEN Norm(m, 2)
        ELSE IF AtOrBeyond(v, a, in.invert)
             THEN Norm(m * ((e - a) * v.d + (v.n - a * v.d)), 2 * (e - a) * v.d)
        ELSE IF AtOrBeyond(v, p, ~in.invert) THEN Fin(0)
        ELSE Norm(m * (v.n - p * v.d), 2 * (a - p) * v.d)

LerpOrdered == Ordered(lerp_in.excellent, lerp_in.acceptable, lerp_in.poor, lerp_in.invert)

-----------------------------------------------------------------------------
(* load_pyproject_config and main.resolve as functions of the command line *)
(* and the configuration file: both are drawn in Init.                     *)

MaxCli == 1
MaxCfgKeys == 1

SubsetsUpTo(S, k) == {D \in SUBSET S : Cardinality(D) <= k}

ConfigCliValues == {Fin(0), Fin(30)}

ConfigArgs ==
    UNION {{[ov |-> [k \in ThresholdKeys |-> IF k \in D THEN Some(f[k]) ELSE None],
             fail_on_threshold |-> FALSE, score_output |-> FALSE] :
                f \in [D -> ConfigCliValues]} :
           D \in SubsetsUpTo(ThresholdKeys, MaxCli)}

TomlValues ==
    {[t |-> "num", v |-> Fin(15)], [t |-> "num", v |-> Norm(139, 2)],
     [t |-> "str", v |-> Fin(0)]}

\* Keys the loader does not know, and a section given as a scalar.
UnrecognisedPaths == {<<"weight">>, <<"complexity", "weight">>, <<"security", "excellent">>}
GatePaths == RecognisedPaths \cup {<<"threshold">>, <<"coverage">>} \cup UnrecognisedPaths

\* A TOML table cannot hold a key both as a scalar and as a table.
WellFormed(D) == \A p \in D, q \in D : ~(Len(p) = 1 /\ Len(q) = 2 /\ q[1] = p[1])

ConfigFiles ==
    {[kind |-> k, entries |-> <<>>] :
        k \in {"absent", "unreadable", "tool_not_table", "gate_not_table"}}
    \cup UNION {{[kind |-> "toml", entries |-> f] : f \in [D -> TomlValues]} :
                D \in {X \in SubsetsUpTo(GatePaths, MaxCfgKeys) : WellFormed(X)}}

InitConfig ==
    /\ WriterIdle
    /\ pc = "config"
    /\ args \in ConfigArgs
    /\ cfg_file \in ConfigFiles
    /\ cfg = NoConfig
    /\ th = NoThresholds
    /\ breakdown = NoBreakdown
    /\ report = NoReport
    /\ score_file = None
    /\ exc = ""
    /\ exit_code = -1
    /\ LerpIdle
    /\ ExtIdle
    /\ FuzzIdle
    /\ NotifyIdle
    /\ DetectIdle
    /\ HookIdle
    /\ StoreIdle

NextConfig == LoadConfig \/ Resolve

SpecConfig == InitConfig /\ [][NextConfig]_vars

-----------------------------------------------------------------------------
(* score.py main, from the parsed command line to the exit status *)

MaxFuncs == 2
MaxFindings == 12

Override(key, x) == [k \in ThresholdKeys |-> IF k = key THEN Some(x) ELSE None]

\* Command lines: no override, or one of a poor threshold of -inf, a higher
\* complexity poor, a complexity excellent above acceptable, a coverage
\* acceptable equal to excellent.
ScoreOverrides ==
    {[k \in ThresholdKeys |-> None],
     Override("coverage_poor", NInf),
     Override("complexity_poor", Fin(30)),
     Override("complexity_excellent", Fin(30)),
     Override("coverage_acceptable", Fin(90))}

ScoreArgs == [ov : ScoreOverrides, fail_on_threshold : BOOLEAN, score_output : {TRUE}]

ScoreConfigFiles ==
    {AbsentFile,
     [kind |-> "toml", entries |-> (<<"threshold">> :> [t |-> "num", v |-> Fin(65)])],
     [kind |-> "toml", entries |-> (<<"threshold">> :> [t |-> "str", v |-> Fin(0)])]}

SeqsUpTo(S, n) == UNION {[1..k -> S] : k \in 0..n}

LizardLines ==
    {[kind |-> "short", cc |-> Fin(0)], [kind |-> "nonnumeric", cc |-> Fin(0)],
     [kind |-> "func", cc |-> Fin(3)], [kind |-> "func", cc |-> Fin(25)]}

LizardRuns ==
    {[kind |-> k, lines |-> <<>>] :
        k \in {"not_installed", "timeout", "oserror", "exit_error"}}
    \cup {[kind |-> "ok", lines |-> q] : q \in SeqsUpTo(LizardLines, MaxFuncs)}

JsFiles ==
    {[kind |-> k, avg |-> Fin(0)] :
        k \in {"not_given", "missing", "unparsable", "nonobject", "error", "bad_avg"}}
    \cup {[kind |-> "ok", avg |-> Fin(8)], [kind |-> "ok", avg |-> Fin(0)]}

JsonAbsent == [t |-> "absent", v |-> Fin(0)]

JsonPercents ==
    {JsonAbsent, [t |-> "null", v |-> Fin(0)], [t |-> "badstr", v |-> Fin(0)],
     [t |-> "num", v |-> Fin(50)], [t |-> "num", v |-> Fin(70)],
     [t |-> "num", v |-> Fin(95)], [t |-> "num", v |-> NaN]}

CoverageFiles ==
    {[kind |-> k, pct |-> JsonAbsent, disp |-> JsonAbsent] :
        k \in {"missing", "unreadable", "unparsable", "nonobject", "no_totals",
               "totals_null"}}
    \cup [kind : {"ok"}, pct : JsonPercents,
          disp : {JsonAbsent, [t |-> "numstr", v |-> Fin(85)]}]

FindingCounts == {0, 1, 2, 10, 11, MaxFindings}

FindingsFiles ==
    {[kind |-> k, n |-> 0, bad |-> 0] :
        k \in {"missing", "unreadable", "unparsable", "nonobject", "results_not_list"}}
    \cup {[kind |-> "ok", n |-> n, bad |-> b] : n \in FindingCounts, b \in {0, 1, MaxFindings}}

PyFile(parts, code_lines) == [parts |-> parts, code_lines |-> code_lines]

SrcTrees ==
    {<<>>,
     <<PyFile(<<"pkg", "a.py">>, 100)>>,
     <<PyFile(<<"pkg", "a.py">>, 100), PyFile(<<"tests", "test_a.py">>, 100)>>,
     <<PyFile(<<"pkg", "a.py">>, 100), PyFile(<<"pkg", "tests", "test_a.py">>, 100)>>}

InitScore ==
    /\ WriterIdle
    /\ pc = "config"
    /\ args \in ScoreArgs
    /\ cfg_file \in ScoreConfigFiles
    /\ cfg = NoConfig
    /\ th = NoThresholds
    /\ breakdown = NoBreakdown
    /\ report = NoReport
    /\ score_file = None
    /\ exc = ""
    /\ exit_code = -1
    /\ LerpIdle
    /\ ExtIdle
    /\ FuzzIdle
    /\ NotifyIdle
    /\ DetectIdle
    /\ HookIdle
    /\ StoreIdle

NextScore ==
    \/ LoadConfig
    \/ Resolve
    \/ \E run \in LizardRuns, js_file \in JsFiles : MeasureComplexity(run, js_file)
    \/ \E file \in CoverageFiles : MeasureCoverage(file)
    \/ \E file \in FindingsFiles, tree \in SrcTrees : MeasureAntipatterns(file, tree)
    \/ Report
    \/ Exit

SpecScore == InitScore /\ [][NextScore]_vars

-----------------------------------------------------------------------------
(* The signal extractors of score.py as functions of the files they read and
   of the analyzer run: calls in any order, each with any input. *)

CallMeasureComplexity(run, js_file) ==
    /\ ext_call' = [fn |-> "measure_complexity", run |-> run, js_file |-> js_file]
    /\ ext_result' = measure_complexity(run, js_file)
    /\ UNCHANGED <<lerpVars, scoreVars, storeVars, fuzzVars, notifyVars, detectVars, hookVars, writerVars>>

CallMeasureCoverage(file) ==
    /\ ext_call' = [fn |-> "measure_coverage", file |-> file]
    /\ ext_result' = measure_coverage(file)
    /\ UNCHANGED <<lerpVars, scoreVars, storeVars, fuzzVars, notifyVars, detectVars, hookVars, writerVars>>

CallMeasureAntipatterns(file, tree) ==
    /\ ext_call' = [fn |-> "measure_antipatterns", file |-> file, tree |-> tree]
    /\ ext_result' = measure_antipatterns(file, tree)
    /\ UNCHANGED <<lerpVars, scoreVars, storeVars, fuzzVars, notifyVars, detectVars, hookVars, writerVars>>

InitExtract ==
    /\ WriterIdle
    /\ ExtIdle
    /\ FuzzIdle
    /\ NotifyIdle
    /\ DetectIdle
    /\ HookIdle
    /\ LerpIdle
    /\ ScoreIdle
    /\ StoreIdle

NextExtract ==
    \/ \E run \in LizardRuns, js_file \in JsFiles : CallMeasureComplexity(run, js_file)
    \/ \E file \in CoverageFiles : CallMeasureCoverage(file)
    \/ \E file \in FindingsFiles, tree \in SrcTrees : CallMeasureAntipatterns(file, tree)

SpecExtract == InitExtract /\ [][NextExtract]_vars

-----------------------------------------------------------------------------
(* score.py main up to the complexity signal, with the complexity poor
   threshold given on the command line, in the file, or left to the default. *)

ComplexityArgs ==
    {[ov |-> o, fail_on_threshold |-> FALSE, score_output |-> FALSE] :
        o \in {[k \in ThresholdKeys |-> None],
               Override("complexity_poor", Fin(30)),
               Override("complexity_poor", Fin(2))}}

ComplexityConfigFiles ==
    {AbsentFile,
     [kind |-> "toml",
      entries |-> (<<"complexity", "poor">> :> [t |-> "num", v |-> Fin(15)])]}

InitComplexity ==
    /\ WriterIdle
    /\ pc = "config"
    /\ args \in ComplexityArgs
    /\ cfg_file \in ComplexityConfigFiles
    /\ cfg = NoConfig
    /\ th = NoThresholds
    /\ breakdown = NoBreakdown
    /\ report = NoReport
    /\ score_file = None
    /\ exc = ""
    /\ exit_code = -1
    /\ LerpIdle
    /\ ExtIdle
    /\ FuzzIdle
    /\ NotifyIdle
    /\ DetectIdle
    /\ HookIdle
    /\ StoreIdle

NextComplexity ==
    \/ LoadConfig
    \/ Resolve
    \/ \E run \in LizardRuns, js_file \in JsFiles : MeasureComplexityTraced(run, js_file)

SpecComplexity == InitComplexity /\ [][NextComplexity]_vars

-----------------------------------------------------------------------------
(* C4 *)

\* Where the configuration file keeps the scalar k.
FilePath(k) ==
    CASE k = "threshold" -> <<"threshold">>
      [] k = "complexity_excellent" -> <<"complexity", "excellent">>
      [] k = "complexity_acceptable" -> <<"complexity", "acceptable">>
      [] k = "complexity_poor" -> <<"complexity", "poor">>
      [] k = "coverage_excellent" -> <<"coverage", "excellent">>
      [] k = "coverage_acceptable" -> <<"coverage", "acceptable">>
      [] k = "coverage_poor" -> <<"coverage", "poor">>
      [] k = "antipattern_excellent" -> <<"antipatterns", "excellent">>
      [] k = "antipattern_acceptable" -> <<"antipatterns", "acceptable">>
      [] k = "antipattern_poor" -> <<"antipatterns", "poor">>

BuiltIn(k) ==
    CASE k = "threshold" -> 70
      [] k = "complexity_excellent" -> 5
      [] k = "complexity_acceptable" -> 10
      [] k = "complexity_poor" -> 20
      [] k = "coverage_excellent" -> 90
      [] k = "coverage_acceptable" -> 70
      [] k = "coverage_poor" -> 40
      [] k = "antipattern_excellent" -> 0
      [] k = "antipattern_acceptable" -> 2
      [] k = "antipattern_poor" -> 5

Resolved == pc = "complexity"
FileHas(k) == FilePath(k) \in DOMAIN cfg_file.entries
FileValue(k) == cfg_file.entries[FilePath(k)].v

\* The integer part of a finite x: the integer nearest to x between 0 and x.
IntegerPart(x) ==
    CHOOSE i \in (-(Abs(x.n)))..Abs(x.n) :
        /\ Abs(i) * x.d <= Abs(x.n)
        /\ (Abs(i) + 1) * x.d > Abs(x.n)
        /\ (i # 0 => Sign(i) = Sign(x.n))

\* C4 as stated: CLI value if given, else the file's value, else the default.
C4_ResolutionOrderAsStated ==
    Resolved =>
        \A k \in ThresholdKeys :
            th[k] = IF args.ov[k] # None THEN args.ov[k][1]
                    ELSE IF FileHas(k) THEN FileValue(k)
                    ELSE Fin(BuiltIn(k))

\* C4, amended: each of the ten scalars is the CLI value if one was given (0
\* counts as given), else the file's value if the file has the key, the
\* pass/fail threshold truncated to an integer, else the built-in default;
\* no other scalar's sources take part.
C4_ResolutionOrder ==
    Resolved =>
        \A k \in ThresholdKeys :
            th[k] = IF args.ov[k] # None THEN args.ov[k][1]
                    ELSE IF FileHas(k)
                         THEN IF k = "threshold" THEN Fin(IntegerPart(FileValue(k)))
                              ELSE FileValue(k)
                    ELSE Fin(BuiltIn(k))

\* A CLI value of 0 is in effect for one scalar while the threshold comes,
\* truncated, from the file's 69.5, and the other scalars are the defaults.
C4_Witness ==
    /\ Resolved
    /\ args.ov["coverage_poor"] = Some(Fin(0))
    /\ th["coverage_poor"] = Fin(0)
    /\ args.ov["threshold"] = None
    /\ FileHas("threshold")
    /\ FileValue("threshold") = Norm(139, 2)
    /\ th["threshold"] = Fin(69)
    /\ th["complexity_poor"] = Fin(20)

-----------------------------------------------------------------------------
(* C5 *)

\* C5: the thresholds main scores with are in order, excellent < acceptable
\* < poor for complexity and anti-pattern density, excellent > acceptable >
\* poor for coverage.
C5_ThresholdsOrdered ==
    Resolved =>
        /\ Ordered(th["complexity_excellent"], th["complexity_acceptable"],
                   th["complexity_poor"], TRUE)
        /\ Ordered(th["coverage_excellent"], th["coverage_acceptable"],
                   th["coverage_poor"], FALSE)
        /\ Ordered(th["antipattern_excellent"], th["antipattern_acceptable"],
                   th["antipattern_poor"], TRUE)

-----------------------------------------------------------------------------
(* C7 *)

\* C7: load_pyproject_config never raises; a missing, unreadable or malformed
\* file gives the empty dict, and a readable one gives only the threshold and
\* the excellent/acceptable/poor keys its three sections hold.
C7_ConfigNeverRaises ==
    pc # "config" =>
        /\ exc = ""
        /\ cfg_file.kind # "toml" => cfg = NoConfig
        /\ DOMAIN cfg = {k \in ThresholdKeys : FileHas(k)}

-----------------------------------------------------------------------------
(* score_store.py: calls on one database, in any order.  recorded_at is the
   wall clock read by datetime.now(UTC): it is not monotonic, a later call
   may read an earlier time. *)

MaxRuns == 3
MaxClock == 1
MaxLimit == 2

Repos == {"org/a", "org/b"}

Run(repo, branch, pr, sha, score, sub) ==
    [repo |-> repo, branch |-> branch, pr |-> pr, sha |-> sha, score |-> Fin(score),
     threshold |-> Fin(DEFAULT_THRESHOLD),
     complexity_score |-> sub, coverage_score |-> sub, antipattern_score |-> sub]

\* A push run recorded with the defaults of record_run, a pull-request run
\* with every field given, and a run of another repository.  Three times the
\* score 62 is not a float of FloatBits bits, as three times 0.1 is not a
\* double.
RunInputs ==
    {Run("org/a", "", None, "", 62, None),
     Run("org/a", "main", Some(42), "abc", 80, Some(Fin(20))),
     Run("org/b", "", None, "", 70, None)}

Branches == {None, Some(""), Some("main")}

InitStore ==
    /\ WriterIdle
    /\ StoreIdle
    /\ LerpIdle
    /\ ExtIdle
    /\ FuzzIdle
    /\ NotifyIdle
    /\ DetectIdle
    /\ HookIdle
    /\ ScoreIdle

NextStore ==
    \/ GetConnection
    \/ \E now \in 0..MaxClock, run \in RunInputs :
          Len(rows) < MaxRuns /\ RecordRun(now, run)
    \/ \E repo \in Repos, limit \in 0..MaxLimit : QueryTrend(repo, limit)
    \/ \E repo \in Repos, branch \in Branches : QueryLatest(repo, branch)
    \/ \E repo \in Repos : QueryStats(repo)

SpecStore == InitStore /\ [][NextStore]_vars

-----------------------------------------------------------------------------
(* run_fuzz.py main, on every targets file of at most MaxTargets lines *)

MaxTargets == 2

FuzzLines ==
    {<<"a">>, <<" ", "b">>, <<>>, <<" ">>, <<"#", "a">>, <<" ", "#">>}

FuzzTargetFiles ==
    {MissingFile} \cup {[kind |-> "file", lines |-> l] : l \in SeqsUpTo(FuzzLines, MaxTargets)}

FuzzArgs == [score_output : BOOLEAN, output : BOOLEAN, fail_on_crash : BOOLEAN]

CrashNames == {1, 2}

FuzzProcs ==
    {[kind |-> "exit", returncode |-> 0, marker |-> FALSE, wrote |-> None],
     [kind |-> "exit", returncode |-> 0, marker |-> TRUE, wrote |-> None],
     [kind |-> "exit", returncode |-> 1, marker |-> FALSE, wrote |-> None],
     [kind |-> "exit", returncode |-> 1, marker |-> TRUE, wrote |-> None],
     [kind |-> "timeout", returncode |-> 0, marker |-> FALSE, wrote |-> None],
     [kind |-> "raise", returncode |-> 0, marker |-> FALSE, wrote |-> None]}
    \cup {[kind |-> "exit", returncode |-> 1, marker |-> TRUE, wrote |-> Some(n)] :
            n \in CrashNames}

InitFuzz ==
    /\ WriterIdle
    /\ fuzz_pc = "start"
    /\ fuzz_args \in FuzzArgs
    /\ targets_file \in FuzzTargetFiles
    /\ harnesses = <<>>
    /\ results = <<>>
    /\ artifacts \in {{}, {[name |-> 1, by |-> 0]}}
    /\ flag_file = None
    /\ report_file = None
    /\ fuzz_exc = ""
    /\ fuzz_exit = -1
    /\ LerpIdle
    /\ ScoreIdle
    /\ ExtIdle
    /\ StoreIdle
    /\ NotifyIdle
    /\ DetectIdle
    /\ HookIdle

NextFuzz ==
    \/ FuzzStart
    \/ \E proc \in FuzzProcs : FuzzRunHarness(proc)
    \/ FuzzReport

SpecFuzz == InitFuzz /\ [][NextFuzz]_vars

-----------------------------------------------------------------------------
(* notify.py on a few command lines and every kind of delivery outcome *)

NotifyNets ==
    {[kind |-> "response", status |-> s] : s \in {200, 399, 400, 500}}
    \cup {[kind |-> k, status |-> 0] : k \in {"url_error", "http_error", "exception"}}

NotifyScores == {Fin(50), Norm(13999, 200), Fin(70), Fin(90), NaN}

NotifyInputs ==
    [webhook : {"https://example.com/hook"} \cup MalformedUrls,
     type : {"slack", "generic"},
     score : NotifyScores,
     threshold : {Fin(70)},
     pr : {None, Some(42)},
     pr_url : {"", "https://example.com/pull/42"},
     only_on_failure : BOOLEAN,
     net : NotifyNets]

InitNotify ==
    /\ WriterIdle
    /\ notify_in \in NotifyInputs
    /\ notify_out = None
    /\ LerpIdle
    /\ ScoreIdle
    /\ ExtIdle
    /\ StoreIdle
    /\ FuzzIdle
    /\ DetectIdle
    /\ HookIdle

NextNotify == NotifyMain

SpecNotify == InitNotify /\ [][NextNotify]_vars

-----------------------------------------------------------------------------
(* detect_fuzz_targets.py on every targets file of at most MaxMappings lines *)

MaxMappings == 2

DetectLines ==
    {<<"s", "/", "*", " ", "g">>,
     <<" ", "t", " ", " ", "f", " ">>,
     <<"*", " ", "f">>,
     <<"s", "/", "?", " ", "b">>,
     <<"#", " ", "t", " ", "f">>,
     <<" ">>,
     <<"t">>,
     <<"t", " ", "f", " ", "g">>}

DetectTargetFiles ==
    {MissingFile}
    \cup {[kind |-> "file", lines |-> l] : l \in SeqsUpTo(DetectLines, MaxMappings)}

HarnessFiles == {<<"f">>, <<"g">>, <<"b">>}

ChangedTexts ==
    {<<>>,
     <<<<>>>>,
     <<<<"s", "/", "a">>>>,
     <<<<" ", "t">>, <<>>>>,
     <<<<"s", "/", "a", "/", "b">>, <<"s", "/", "a">>>>}

DetectInputs ==
    [changed : ChangedTexts,
     targets : DetectTargetFiles,
     disk : {{}, {<<"f">>, <<"g">>}, {<<"g">>, <<"b">>}, HarnessFiles}]

InitDetect ==
    /\ WriterIdle
    /\ detect_in \in DetectInputs
    /\ detect_out = None
    /\ LerpIdle
    /\ ScoreIdle
    /\ ExtIdle
    /\ StoreIdle
    /\ FuzzIdle
    /\ NotifyIdle
    /\ HookIdle

NextDetect == DetectMain

SpecDetect == InitDetect /\ [][NextDetect]_vars

-----------------------------------------------------------------------------
(* precommit_complexity.py with the default thresholds, on at most two paths
   of at most MaxHookLines lines each *)

MaxHookLines == 2

HOOK_MAX_COMPLEXITY == 15
HOOK_WARN_COMPLEXITY == 10

HookLines ==
    {[kind |-> "short", cc |-> Fin(0)], [kind |-> "nonnumeric", cc |-> Fin(0)],
     [kind |-> "func", cc |-> Fin(9)], [kind |-> "func", cc |-> Fin(10)],
     [kind |-> "func", cc |-> Fin(15)], [kind |-> "func", cc |-> Fin(16)]}

HookRuns ==
    {[kind |-> "timeout", lines |-> <<>>]}
    \cup {[kind |-> "ok", lines |-> l] : l \in SeqsUpTo(HookLines, MaxHookLines)}

HookInputs ==
    [max_complexity : {HOOK_MAX_COMPLEXITY},
     warn_complexity : {HOOK_WARN_COMPLEXITY},
     installed : BOOLEAN,
     runs : SeqsUpTo(HookRuns, 2)]

InitHook ==
    /\ WriterIdle
    /\ hook_in \in HookInputs
    /\ hook_out = None
    /\ LerpIdle
    /\ ScoreIdle
    /\ ExtIdle
    /\ StoreIdle
    /\ FuzzIdle
    /\ NotifyIdle
    /\ DetectIdle

NextHook == HookMain

SpecHook == InitHook /\ [][NextHook]_vars

-----------------------------------------------------------------------------
(* The pipeline: score.py writes the score file, then record_run and
   notify.py are given the score read from it and the same threshold. *)

PipelineArgs ==
    [ov : {[k \in ThresholdKeys |-> None], Override("coverage_poor", NInf)},
     fail_on_threshold : BOOLEAN,
     score_output : BOOLEAN]

PipelineRuns ==
    {[kind |-> "not_installed", lines |-> <<>>],
     [kind |-> "ok", lines |-> <<[kind |-> "func", cc |-> Fin(3)]>>],
     [kind |-> "ok", lines |-> <<[kind |-> "func", cc |-> Fin(25)]>>]}

\* Coverage files: 48.565 per cent with full marks elsewhere gives a total of
\* 69.99625.
PipelineCoverageFiles ==
    {[kind |-> "missing", pct |-> JsonAbsent, disp |-> JsonAbsent]}
    \cup {[kind |-> "ok", pct |-> [t |-> "num", v |-> p], disp |-> JsonAbsent] :
            p \in {Fin(30), Norm(9713, 200), Fin(50), Fin(70), Fin(95)}}

PipelineFindingsFiles ==
    {[kind |-> "missing", n |-> 0, bad |-> 0], [kind |-> "ok", n |-> 2, bad |-> 0]}

PipelineTree == <<PyFile(<<"pkg", "a.py">>, 100)>>

PipelineRun ==
    [repo |-> "org/a", branch |-> "", pr |-> None, sha |-> "",
     score |-> score_file[1], threshold |-> th["threshold"],
     complexity_score |-> None, coverage_score |-> None, antipattern_score |-> None]

\* The step after score.py: score_store.py records the score of the file.
PipelineRecord ==
    /\ pc = "done" /\ exc = "" /\ score_file # None
    /\ last_call.op = "none"
    /\ RecordRun(0, PipelineRun)

\* The step after score.py: notify.py is run on the score of the file.
PipelineNotify ==
    /\ pc = "done" /\ exc = "" /\ score_file # None
    /\ notify_out = None
    /\ \E type \in {"slack", "generic"} :
          /\ notify_in' = [NoNotifyArgs EXCEPT
                              !.webhook = "https://example.com/hook",
                              !.type = type,
                              !.score = score_file[1],
                              !.threshold = th["threshold"],
                              !.net = [kind |-> "response", status |-> 200]]
          /\ notify_out' = Some(notify_main(notify_in'))
    /\ UNCHANGED <<lerpVars, extVars, scoreVars, storeVars, fuzzVars, detectVars, hookVars, writerVars>>

InitPipeline ==
    /\ WriterIdle
    /\ pc = "config"
    /\ args \in PipelineArgs
    /\ cfg_file = AbsentFile
    /\ cfg = NoConfig
    /\ th = NoThresholds
    /\ breakdown = NoBreakdown
    /\ report = NoReport
    /\ score_file = None
    /\ exc = ""
    /\ exit_code = -1
    /\ LerpIdle
    /\ ExtIdle
    /\ FuzzIdle
    /\ NotifyIdle
    /\ DetectIdle
    /\ HookIdle
    /\ StoreIdle

NextPipeline ==
    \/ LoadConfig
    \/ Resolve
    \/ \E run \in PipelineRuns :
          MeasureComplexity(run, [kind |-> "not_given", avg |-> Fin(0)])
    \/ \E file \in PipelineCoverageFiles : MeasureCoverage(file)
    \/ \E file \in PipelineFindingsFiles : MeasureAntipatterns(file, PipelineTree)
    \/ Report
    \/ Exit
    \/ PipelineRecord
    \/ PipelineNotify

SpecPipeline == InitPipeline /\ [][NextPipeline]_vars

-----------------------------------------------------------------------------
(* Two record_run calls at once on one database file, new or holding a run *)

\* The database file before the calls: absent, or holding one run.
WriterTables == {<<>>, <<NewRow(<<>>, 0, Run("org/a", "", None, "", 62, None))>>}

InitWriters ==
    /\ rows \in WriterTables
    /\ last_call = [op |-> "none"]
    /\ last_result = None
    /\ writer \in [Writers -> {[NoWriter EXCEPT !.pc = "connect", !.run = Some(r)] :
                                  r \in RunInputs}]
    /\ db_lock = 0
    /\ db_schema = (rows # <<>>)
    /\ rows_before = Len(rows)
    /\ LerpIdle
    /\ ExtIdle
    /\ ScoreIdle
    /\ FuzzIdle
    /\ NotifyIdle
    /\ DetectIdle
    /\ HookIdle

NextWriters ==
    \/ \E p \in Writers : WriterConnect(p)
    \/ \E p \in Writers : WriterSchema(p)
    \/ \E p \in Writers, now \in 0..MaxClock : WriterInsert(p, now)
    \/ \E p \in Writers : WriterBusyWait(p)
    \/ \E p \in Writers : WriterBusyTimeout(p)
    \/ \E p \in Writers : WriterCommit(p)
    \/ \E p \in Writers : WriterReturn(p)

SpecWriters == InitWriters /\ [][NextWriters]_vars

-----------------------------------------------------------------------------
(* C2, C3, C6: the run of main under SpecScore *)

Finished == pc = "done"
Scored == pc \in {"report", "exit", "done"} /\ exc = ""
Reported == pc \in {"exit", "done"} /\ exc = ""

\* C2: the report says PASSED exactly when total >= threshold and BLOCKED
\* otherwise, and the process ends with status 1 exactly when
\* --fail-on-threshold is set and total < threshold, with status 0 in every
\* other case.
C2_VerdictAndExitCode ==
    /\ Reported =>
          report.status = IF GE(total(breakdown), th["threshold"])
                          THEN "PASSED" ELSE "BLOCKED"
    /\ Finished =>
          exit_code = IF args.fail_on_threshold /\ LT(total(breakdown), th["threshold"])
                      THEN 1 ELSE 0

InRange(x, max_pts) == GE(x, Fin(0)) /\ GE(Fin(max_pts), x)

\* C3: once the three signals are computed, complexity_score is in [0,40],
\* coverage_score in [0,35], antipattern_score in [0,25] and total in [0,100],
\* whatever the overrides and the configuration file contain.
C3_ScoresInRange ==
    Scored =>
        /\ InRange(breakdown.complexity_score, COMPLEXITY_MAX_PTS)
        /\ InRange(breakdown.coverage_score, COVERAGE_MAX_PTS)
        /\ InRange(breakdown.antipattern_score, ANTIPATTERN_MAX_PTS)
        /\ InRange(total(breakdown),
                   COMPLEXITY_MAX_PTS + COVERAGE_MAX_PTS + ANTIPATTERN_MAX_PTS)

\* C6: no extractor raises, whatever the input files and the analyzer run
\* are: a run whose thresholds were resolved never ends on an exception, it
\* ends with a report.
C6_ExtractionNeverFatal ==
    (Finished /\ th # NoThresholds) => (exc = "" /\ report # NoReport)


-----------------------------------------------------------------------------
(* C8, C9, C10: the run history under SpecStore *)

\* C8: right after record_run(db, score=s, repo=r, ...) returns,
\* query_latest(db, r) returns the run just recorded with its score, branch,
\* pr, sha, threshold, passed flag and sub-scores unchanged, whatever runs
\* the store already held for r.
C8_RoundTripLatest ==
    last_call.op = "record_run" =>
        LET run == last_call.run
            got == query_latest(rows, run.repo, None)
        IN  /\ got # None
            /\ got[1].id = last_result
            /\ got[1].score = run.score
            /\ got[1].branch = run.branch
            /\ got[1].pr = run.pr
            /\ got[1].sha = run.sha
            /\ got[1].threshold = run.threshold
            /\ got[1].passed = (IF GE(run.score, run.threshold) THEN 1 ELSE 0)
            /\ got[1].complexity_score = run.complexity_score
            /\ got[1].coverage_score = run.coverage_score
            /\ got[1].antipattern_score = run.antipattern_score

\* The runs of a repo in the order record_run inserted them.
Inserted(t, repo) == SelectSeq(t, LAMBDA r : r.repo = repo)

LastOf(q, k) == SubSeq(q, Len(q) - k + 1, Len(q))

\* C9: query_trend(db, repo, limit) returns the last min(limit, n) runs
\* recorded for the repo, in the order in which record_run inserted them.
C9_TrendInInsertionOrder ==
    last_call.op = "query_trend" =>
        LET runs == Inserted(rows, last_call.repo)
            last == LastOf(runs, Min(last_call.limit, Len(runs)))
        IN  last_result = [k \in 1..Len(last) |-> TrendColumns(last[k])]

Queries == {"query_trend", "query_latest", "query_stats"}

\* C10: the store is append-only: no call changes or removes a row that
\* record_run inserted, and the three queries leave the table as they found
\* it.
C10_AppendOnly ==
    [][/\ Len(rows') >= Len(rows)
       /\ \A i \in 1..Len(rows) : rows'[i] = rows[i]
       /\ last_call'.op \in Queries => rows' = rows]_vars

\* C10: a second run of a repository has been recorded on top of the first
\* and a query has then been made.
C10_Witness ==
    /\ Len(rows) >= 2
    /\ rows[1].repo = rows[2].repo
    /\ rows[1] # rows[2]
    /\ last_call.op \in Queries


-----------------------------------------------------------------------------
(* C11 *)

\* C11: every record_run returns a positive row id greater than every id an
\* earlier call returned (the ids of the rows already in the table), and no
\* two runs share an id.
C11_RowIdsIncrease ==
    /\ \A i, j \in 1..Len(rows) : i < j => rows[i].id < rows[j].id
    /\ last_call.op = "record_run" =>
          /\ last_result > 0
          /\ last_result = rows[Len(rows)].id
          /\ \A i \in 1..(Len(rows) - 1) : rows[i].id < last_result

\* C11: a third run has been recorded, after runs of two repositories.
C11_Witness ==
    /\ last_call.op = "record_run"
    /\ Len(rows) = 3
    /\ rows[1].repo # rows[2].repo
    /\ last_result = 3


-----------------------------------------------------------------------------
(* C12 *)

\* C12: with a branch string b given, query_latest returns the most recent
\* run of the repo whose branch is exactly b, or None when there is none; it
\* never returns a run recorded with another branch.
C12_BranchFilterExact ==
    (last_call.op = "query_latest" /\ last_call.branch # None) =>
        LET b == last_call.branch[1]
            hits == {i \in 1..Len(rows) :
                        rows[i].repo = last_call.repo /\ rows[i].branch = b}
        IN  IF hits = {} THEN last_result = None
            ELSE /\ last_result # None
                 /\ last_result[1].repo = last_call.repo
                 /\ last_result[1].branch = b
                 /\ \A i \in hits : rows[i].recorded_at <= last_result[1].recorded_at


-----------------------------------------------------------------------------
(* C13 *)

NoRunsOf(repo) == \A i \in 1..Len(rows) : rows[i].repo # repo

\* C13: for a repository with no recorded runs, in a new store or one that
\* holds runs of other repositories, query_trend returns the empty list,
\* query_latest returns None and query_stats returns the empty dict.
C13_EmptyRepository ==
    (last_call.op \in Queries /\ NoRunsOf(last_call.repo)) =>
        CASE last_call.op = "query_trend" -> last_result = <<>>
          [] last_call.op = "query_latest" -> last_result = None
          [] last_call.op = "query_stats" -> last_result = None

\* C13: query_stats was asked about a repository without runs while the store
\* holds a run of another repository.
C13_Witness ==
    /\ last_call.op = "query_stats"
    /\ NoRunsOf(last_call.repo)
    /\ rows # <<>>


-----------------------------------------------------------------------------
(* C14 *)

RunsOf(repo) == {i \in 1..Len(rows) : rows[i].repo = repo}

\* The exact mean of the scores of the rows S.
Mean(S) == Div(SumSeq([k \in 1..Cardinality(S) |-> rows[SetToSeq(S)[k]].score]),
               Fin(Cardinality(S)))

StatsAsked == last_call.op = "query_stats" /\ RunsOf(last_call.repo) # {}

\* What C14 says of every field but avg_score: the counts, the extremes and
\* the pass rate, a multiple of 0.1 within 0.05 of passed/total*100.
CountsAndRate(st, S) ==
    LET n == Cardinality(S)
        passed == Cardinality({i \in S : GE(rows[i].score, rows[i].threshold)})
        rate10 == Mul(st.pass_rate, Fin(10))
    IN  /\ st.total_runs = n
        /\ st.passed_runs = passed
        /\ st.blocked_runs = n - passed
        /\ \A i \in S : GE(rows[i].score, st.worst_score) /\ GE(st.best_score, rows[i].score)
        /\ \E i \in S : rows[i].score = st.worst_score
        /\ \E i \in S : rows[i].score = st.best_score
        /\ rate10.d = 1
        /\ GE(Half, AbsVal(Sub(rate10, Norm(1000 * passed, n))))
        /\ GE(st.pass_rate, Fin(0)) /\ GE(Fin(100), st.pass_rate)

\* C14 as stated: for a repo with n >= 1 runs query_stats returns total_runs
\* = n, passed_runs = the runs with score >= their threshold, blocked_runs =
\* the rest, worst_score <= avg_score <= best_score and pass_rate =
\* passed/total*100 rounded to one decimal, in [0,100].
C14_StatsAsStated ==
    StatsAsked =>
        /\ last_result # None
        /\ CountsAndRate(last_result[1], RunsOf(last_call.repo))
        /\ GE(last_result[1].avg_score, last_result[1].worst_score)
        /\ GE(last_result[1].best_score, last_result[1].avg_score)

\* C14, amended: the counts, the extremes and the pass rate are as stated,
\* and avg_score is the mean of the scores up to the rounding of the sum and
\* of the quotient: within n * 2^(1 - FloatBits) of the exact mean,
\* relatively, not always within [worst_score, best_score].
C14_Stats ==
    StatsAsked =>
        /\ last_result # None
        /\ CountsAndRate(last_result[1], RunsOf(last_call.repo))
        /\ LET S == RunsOf(last_call.repo)
               tol == Mul(Norm(2 * Cardinality(S), Pow2(FloatBits)), Mean(S))
           IN  GE(tol, AbsVal(Sub(last_result[1].avg_score, Mean(S))))

\* C14: the statistics of a repository with three runs were asked, some
\* passed and some blocked, or with an average that rounding took below the
\* lowest score.
C14_Witness ==
    /\ StatsAsked
    /\ last_result[1].total_runs = 3
    /\ \/ last_result[1].passed_runs = 2 /\ last_result[1].blocked_runs = 1
       \/ LT(last_result[1].avg_score, last_result[1].worst_score)


-----------------------------------------------------------------------------
(* C15, C16: measure_antipatterns under SpecExtract *)

AntipatternsReturned ==
    /\ ext_call.fn = "measure_antipatterns"
    /\ ext_call.file.kind = "ok"
    /\ ext_result.raised = ""

\* The files of the tree with some directory on their path in D.
Inside(tree, D) ==
    {i \in 1..Len(tree) : \E k \in 1..(Len(tree[i].parts) - 1) : tree[i].parts[k] \in D}

\* The files of the tree whose first path component is in D.
TopLevelInside(tree, D) ==
    {i \in 1..Len(tree) : tree[i].parts # <<>> /\ tree[i].parts[1] \in D}

RECURSIVE CodeLines(_, _)
CodeLines(tree, S) ==
    IF S = {} THEN 0
    ELSE LET i == CHOOSE j \in S : TRUE
         IN  tree[i].code_lines + CodeLines(tree, S \ {i})

Floor1(n) == IF n < 1 THEN 1 ELSE n

\* C15 as stated: the density returned is 100 * n / L with L = max(1, the
\* code lines of the .py files not inside a noise directory at any depth).
C15_DensityAnyDepth ==
    AntipatternsReturned =>
        LET tree == ext_call.tree
            L == Floor1(CodeLines(tree, (1..Len(tree)) \ Inside(tree, LOC_EXCLUDE_DIRS)))
        IN  ext_result.value = Norm(100 * ext_call.file.n, L)

\* C15, amended: the density returned is 100 * n / L with L = max(1, the
\* code lines of the .py files whose first path component below the root is
\* not a noise directory); L is never 0.
C15_Density ==
    AntipatternsReturned =>
        LET tree == ext_call.tree
            L == Floor1(CodeLines(tree, (1..Len(tree)) \ TopLevelInside(tree, LOC_EXCLUDE_DIRS)))
        IN  /\ L > 0
            /\ ext_result.value = Norm(100 * ext_call.file.n, L)

\* C15: two findings were measured against a tree with a tests directory
\* below a package, and findings against a tree with no countable file.
C15_Witness ==
    /\ AntipatternsReturned
    /\ ext_call.file.n = 2
    /\ \/ Inside(ext_call.tree, LOC_EXCLUDE_DIRS) # TopLevelInside(ext_call.tree, LOC_EXCLUDE_DIRS)
       \/ ext_call.tree = <<>> /\ ext_result.value = Fin(200)

\* C16: for a findings list of n entries measure_antipatterns returns one
\* warning for each of the first min(n, 10) findings, in list order, then one
\* rollup stating n - 10 exactly when n > 10; never more than 11 warnings.
C16_WarningsCapped ==
    (ext_call.fn = "measure_antipatterns" /\ ext_call.file.kind = "ok") =>
        LET n == ext_call.file.n
            w == ext_result.warnings
            shown == IF n < 10 THEN n ELSE 10
        IN  /\ ext_result.raised = ""
            /\ Len(w) = shown + (IF n > 10 THEN 1 ELSE 0)
            /\ Len(w) <= 11
            /\ \A i \in 1..shown : w[i] = Warning("finding", i)
            /\ n > 10 => w[Len(w)] = Warning("more_findings", n - 10)


-----------------------------------------------------------------------------
(* C17, C18: the complexity signal under SpecComplexity *)

ComplexityMeasured == pc = "coverage" /\ ext_call.fn = "measure_complexity"

Warned(w) == \E k \in 1..Len(breakdown.warnings) : breakdown.warnings[k] = w

\* C17: the run gets a warning naming a function exactly when the function's
\* complexity exceeds the complexity poor threshold in effect for the run,
\* the one resolved from the command line, the file and the default.
C17_WarningAtResolvedPoor ==
    (ComplexityMeasured /\ ext_call.run.kind = "ok") =>
        \A i \in 1..Len(ext_call.run.lines) :
            ext_call.run.lines[i].kind = "func" =>
                (Warned(Warning("very_high_complexity", i))
                    <=> GT(ext_call.run.lines[i].cc, th["complexity_poor"]))

\* C18: whenever lizard is not installed the warnings measure_complexity
\* returns, and so those of the breakdown, contain the installation hint,
\* whether or not a JS/TS complexity result is supplied.
C18_InstallHintKept ==
    (ComplexityMeasured /\ ext_call.run.kind = "not_installed") =>
        /\ \E k \in 1..Len(ext_result.warnings) :
              ext_result.warnings[k] = Warning("install_lizard", 0)
        /\ Warned(Warning("install_lizard", 0))


-----------------------------------------------------------------------------
(* C19: the report under SpecScore *)

\* C19: the report has the Findings section, listing every accumulated
\* warning in order, if and only if the breakdown has at least one warning,
\* and has the "Merge blocked" instruction if and only if the total is less
\* than the threshold.
C19_ReportSections ==
    Reported =>
        /\ report.findings_section <=> (breakdown.warnings # <<>>)
        /\ report.findings_section => (report.findings = breakdown.warnings)
        /\ report.merge_blocked <=> LT(total(breakdown), th["threshold"])

-----------------------------------------------------------------------------
(* C20: run_fuzz.py main under SpecFuzz *)

FuzzProcessed == fuzz_pc = "done" /\ fuzz_exc = "" /\ targets_file.kind # "missing"

CrashDetected == \E i \in 1..Len(results) : results[i].crashed

\* C20: once main has processed a harness list that is not empty, the crash
\* flag file holds "1" exactly when a harness run was detected as crashed
\* and "0" otherwise, "0" in particular when the harnesses only timed out,
\* and the exit status is 1 exactly when --fail-on-crash is set and a crash
\* was detected; with an empty list the file holds "0" and the status is 0.
C20_CrashFlag ==
    FuzzProcessed =>
        /\ Len(results) = Len(harnesses)
        /\ fuzz_args.score_output =>
              /\ flag_file \in {Some("0"), Some("1")}
              /\ flag_file = Some("1") <=> CrashDetected
              /\ (\A i \in 1..Len(results) : results[i].timed_out)
                    => flag_file = Some("0")
        /\ fuzz_exit \in {0, 1}
        /\ fuzz_exit = 1 <=> (fuzz_args.fail_on_crash /\ CrashDetected)
        /\ harnesses = <<>> =>
              /\ fuzz_exit = 0
              /\ fuzz_args.score_output => flag_file = Some("0")

\* C20 witness: a list of two harnesses has been processed with
\* --score-output and --fail-on-crash; one run timed out, the other was
\* detected as crashed; the file holds "1" and the status is 1.
C20_Witness ==
    /\ FuzzProcessed
    /\ Len(harnesses) = 2
    /\ fuzz_args.score_output /\ fuzz_args.fail_on_crash
    /\ \E i, j \in 1..Len(results) : results[i].timed_out /\ results[j].crashed
    /\ flag_file = Some("1")
    /\ fuzz_exit = 1

-----------------------------------------------------------------------------
(* C21: notify.py under SpecNotify *)

\* C21: whatever the webhook URL, a malformed one included, and whatever the
\* delivery outcome, send_webhook returns instead of raising, it returns
\* True only for a response status below 400 and False on every failure,
\* and the notify process ends with exit status 0.
C21_NotificationNeverFatal ==
    notify_out # None =>
        LET out == notify_out[1]
            net == notify_in.net
        IN  /\ out.raised = ""
            /\ out.exit_code = 0
            /\ out.payload # None =>
                  /\ out.ok # None
                  /\ out.ok = Some(TRUE) => (net.kind = "response" /\ net.status < 400)
                  /\ (net.kind # "response" \/ net.status >= 400) => out.ok = Some(FALSE)

-----------------------------------------------------------------------------
(* C22: detect_fuzz_targets.py under SpecDetect *)

Blanks(n) == [i \in 1..n |-> " "]
IsWord(w) == w # <<>> /\ \A i \in 1..Len(w) : w[i] # " "

\* line is a well-formed mapping line for (glob, h): optional blanks, the
\* glob, at least one blank, the harness, optional blanks; a line whose
\* first character after the blanks is "#" is a comment.
WellFormedMapping(line, glob, h) ==
    /\ IsWord(glob) /\ IsWord(h)
    /\ Head(glob) # "#"
    /\ \E a, b, c \in 0..Len(line) :
          /\ b >= 1
          /\ line = Blanks(a) \o glob \o Blanks(b) \o h \o Blanks(c)

Pieces(line) == {SubSeq(line, i, j) : i, j \in 1..Len(line)}

\* The harnesses the output file has to list.
ExpectedHarnesses ==
    IF detect_in.targets.kind = "missing" THEN {}
    ELSE {h \in detect_in.disk :
            \E l \in 1..Len(detect_in.targets.lines) :
               \E glob \in Pieces(detect_in.targets.lines[l]) :
                  /\ WellFormedMapping(detect_in.targets.lines[l], glob, h)
                  /\ \E c \in 1..Len(detect_in.changed) :
                        /\ strip(detect_in.changed[c]) # <<>>
                        /\ fnmatch(strip(detect_in.changed[c]), glob)}

\* C22: the output file lists exactly the harnesses h for which a changed
\* file matches the glob of a well-formed mapping line (glob, h) and h
\* exists on disk, each once, one per line, in ascending order; it is empty
\* when there is none.
C22_ActiveHarnesses ==
    detect_out # None =>
        LET out == detect_out[1]
        IN  /\ {out[i] : i \in 1..Len(out)} = ExpectedHarnesses
            /\ \A i, j \in 1..Len(out) : i < j => TextLess(out[i], out[j])
            /\ ExpectedHarnesses = {} => out = <<>>

\* C22 witness: two mapping lines are matched, two harnesses exist and are
\* listed, with a harness that does not exist left out.
C22_Witness ==
    /\ detect_out # None
    /\ Len(detect_out[1]) = 2
    /\ Len(detect_in.targets.lines) = 2
    /\ detect_in.disk # HarnessFiles

-----------------------------------------------------------------------------
(* C23: precommit_complexity.py under SpecHook *)

\* The functions of the analysed files: those of the paths lizard analysed.
AnalysedFunctions ==
    {<<k, i>> \in (1..Len(hook_in.runs)) \X (1..MaxHookLines) :
        /\ hook_in.installed
        /\ hook_in.runs[k].kind = "ok"
        /\ i <= Len(hook_in.runs[k].lines)
        /\ hook_in.runs[k].lines[i].kind = "func"}

FunctionCC(f) == hook_in.runs[f[1]].lines[f[2]].cc

\* C23: check_files returns 1 exactly when a function of the analysed files
\* has a complexity that exceeds max_complexity and 0 otherwise; a function
\* that reaches warn_complexity and is not blocked gets a warning only; a
\* missing lizard binary never blocks.
C23_BlocksAboveMax ==
    hook_out # None =>
        LET out == hook_out[1]
        IN  /\ out.returned \in {0, 1}
            /\ out.returned = 1 <=>
                  \E f \in AnalysedFunctions :
                      GT(FunctionCC(f), Fin(hook_in.max_complexity))
            /\ \A f \in AnalysedFunctions :
                  (/\ GE(FunctionCC(f), Fin(hook_in.warn_complexity))
                   /\ ~GT(FunctionCC(f), Fin(hook_in.max_complexity)))
                  => \E w \in 1..Len(out.warnings) :
                        out.warnings[w] = [path |-> f[1], line |-> f[2]]
            /\ ~hook_in.installed => out.returned = 0

-----------------------------------------------------------------------------
(* C24: degenerate thresholds under SpecLerp *)

Degenerate ==
    lerp_in.excellent = lerp_in.acceptable \/ lerp_in.acceptable = lerp_in.poor

LerpAt(v) ==
    lerp_score(v, lerp_in.excellent, lerp_in.acceptable, lerp_in.poor,
               lerp_in.max_pts, lerp_in.invert)

\* C24 as stated: when excellent == acceptable or acceptable == poor, there
\* is a value for which lerp_score divides by zero.
C24_DegenerateDivides ==
    (lerp_out # <<>> /\ Degenerate) =>
        \E v \in LerpValues : LerpAt(v) = ZeroDivisionError

\* C24 as amended: when excellent == acceptable or acceptable == poor, no
\* value makes lerp_score divide by zero: the branch whose interval has zero
\* width is never entered, a value at the shared threshold being taken by
\* the test before it (max_pts at excellent == acceptable, max_pts / 2 at
\* acceptable == poor below excellent).
C24_DegenerateNeverDivides ==
    (lerp_out # <<>> /\ Degenerate) =>
        /\ \A v \in LerpValues : LerpAt(v) # ZeroDivisionError
        /\ lerp_out[1] # ZeroDivisionError
        /\ (lerp_in.excellent = lerp_in.acceptable /\ lerp_in.value = lerp_in.excellent)
              => lerp_out[1] = lerp_in.max_pts
        /\ (/\ lerp_in.acceptable = lerp_in.poor
            /\ lerp_in.value = lerp_in.acceptable
            /\ ~AtOrBeyond(lerp_in.value, lerp_in.excellent.n, lerp_in.invert))
              => lerp_out[1] = Mul(lerp_in.max_pts, Half)

\* C24 witness: the call was made with acceptable == poor below excellent and
\* the value at the shared threshold; it returned half of max_pts.
C24_Witness ==
    /\ lerp_out # <<>>
    /\ lerp_in.acceptable = lerp_in.poor
    /\ lerp_in.excellent # lerp_in.acceptable
    /\ lerp_in.value = lerp_in.acceptable
    /\ lerp_out[1] = Mul(lerp_in.max_pts, Half)

-----------------------------------------------------------------------------
(* C27: monotonicity of lerp_score on the thresholds main resolved *)

MonotonicValues == {Fin(0), Fin(1), Fin(3), Fin(8), Fin(15), Fin(50), Fin(80), Fin(100)}

LE(x, y) == GE(y, x)

\* lerp_score on the resolved thresholds of one signal is monotonic.
MonotonicOn(signal, max_pts, invert) ==
    LET e == th[signal \o "_excellent"]
        a == th[signal \o "_acceptable"]
        p == th[signal \o "_poor"]
        f(v) == lerp_score(v, e, a, p, Fin(max_pts), invert)
    IN  Ordered(e, a, p, invert) =>
            \A v1, v2 \in MonotonicValues :
                LE(v1, v2) => IF invert THEN GE(f(v1), f(v2)) ELSE LE(f(v1), f(v2))

\* C27: for every threshold triple in the signal's order lerp_score is
\* monotonic in quality: v1 <= v2 implies lerp_score(v1) <= lerp_score(v2)
\* when higher is better and lerp_score(v1) >= lerp_score(v2) when lower is
\* better.
C27_Monotonic ==
    (pc \notin {"idle", "config", "resolve"} /\ th # NoThresholds) =>
        /\ MonotonicOn("complexity", COMPLEXITY_MAX_PTS, TRUE)
        /\ MonotonicOn("coverage", COVERAGE_MAX_PTS, FALSE)
        /\ MonotonicOn("antipattern", ANTIPATTERN_MAX_PTS, TRUE)

-----------------------------------------------------------------------------
(* C25: the verdicts of the pipeline under SpecPipeline *)

ScorePassed == report.status = "PASSED"

\* C25: the verdict score.py computes from the total, in its report and in
\* its exit status, equals the passed flag record_run stores and the passed
\* value notify reports when they are given the score score.py wrote to the
\* score file and the same threshold.
C25_SameVerdict ==
    (pc = "done" /\ exc = "") =>
        /\ args.fail_on_threshold => (exit_code = 1 <=> ~ScorePassed)
        /\ last_call.op = "record_run" =>
              /\ rows # <<>>
              /\ rows # <<>> => (rows[Len(rows)].passed = 1 <=> ScorePassed)
        /\ notify_out # None =>
              (notify_out[1].payload[1].passed <=> ScorePassed)

\* The run has the built-in thresholds: no override on the command line and
\* no configuration file.
BuiltInThresholds ==
    /\ args.ov = [k \in ThresholdKeys |-> None]
    /\ cfg_file = AbsentFile

\* The coverage signal degraded: the file was missing or could not be parsed.
CoverageDegraded ==
    breakdown.coverage_detail \in
        {"coverage.json not found", "Could not parse coverage.json"}

AllDegraded ==
    /\ breakdown.complexity_detail = "lizard not installed"
    /\ breakdown.coverage_detail = "coverage.json not found"
    /\ breakdown.antipattern_detail = "semgrep-results.json not found"

\* C26: with the built-in thresholds and the threshold 70, a run whose
\* coverage signal degraded to 0.0 has a total of at most 65 and is reported
\* BLOCKED; when the analyzer is absent and the coverage and findings files
\* are missing the three scores are 40, 0 and 25 and the total is exactly 65.
C26_DegradedCoverageNeverPasses ==
    (BuiltInThresholds /\ Scored /\ CoverageDegraded) =>
        /\ th["threshold"] = Fin(DEFAULT_THRESHOLD)
        /\ breakdown.coverage_score = Fin(0)
        /\ LE(total(breakdown), Fin(65))
        /\ Reported => report.status = "BLOCKED"
        /\ AllDegraded =>
              /\ breakdown.complexity_score = Fin(COMPLEXITY_MAX_PTS)
              /\ breakdown.antipattern_score = Fin(ANTIPATTERN_MAX_PTS)
              /\ total(breakdown) = Fin(65)

\* C26: a finished run with the built-in thresholds in which all three
\* extractors degraded.
C26_Witness ==
    /\ BuiltInThresholds
    /\ pc = "done" /\ exc = ""
    /\ AllDegraded
    /\ total(breakdown) = Fin(65)
    /\ report.status = "BLOCKED"

\* The three queries for repository B give the same results on tables t1
\* and t2.
SameAnswers(t1, t2, B) ==
    /\ \A limit \in 0..MaxLimit : query_trend(t1, B, limit) = query_trend(t2, B, limit)
    /\ \A branch \in Branches : query_latest(t1, B, branch) = query_latest(t2, B, branch)
    /\ query_stats(t1, B) = query_stats(t2, B)

\* The result of the last query holds only runs recorded for the repository
\* that was asked for.
ReturnedOwn ==
    LET B == last_call.repo
        own == {i \in 1..Len(rows) : rows[i].repo = B}
    IN  /\ last_call.op = "query_trend" =>
              \A k \in 1..Len(last_result) :
                  \E i \in own : last_result[k] = TrendColumns(rows[i])
        /\ last_call.op = "query_latest" =>
              (last_result # None =>
                  /\ last_result[1].repo = B
                  /\ \E i \in own : last_result[1] = rows[i])
        /\ last_call.op = "query_stats" =>
              /\ last_result = None <=> own = {}
              /\ last_result # None => last_result[1].total_runs = Cardinality(own)

\* C28: a record_run for repository A leaves the results of query_trend,
\* query_latest and query_stats of every other repository B unchanged, and
\* every run a query for B returns was recorded with repo equal to B.
C28_RepoIsolation ==
    [][/\ last_call'.op = "record_run" =>
              \A B \in Repos \ {last_call'.run.repo} : SameAnswers(rows, rows', B)
       /\ last_call'.op \in {"query_trend", "query_latest", "query_stats"} =>
              ReturnedOwn']_vars

\* C28: a run has just been recorded for org/a in a store that holds runs of
\* org/a and of org/b, so that the queries for org/b have results to keep.
C28_Witness ==
    /\ last_call.op = "record_run"
    /\ last_call.run.repo = "org/a"
    /\ \E i \in 1..Len(rows) : rows[i].repo = "org/b"
    /\ Cardinality({i \in 1..Len(rows) : rows[i].repo = "org/a"}) >= 2
    /\ query_trend(rows, "org/b", MaxLimit) # <<>>

\* Both calls have returned.
BothReturned == \A p \in Writers : writer[p].pc = "returned"

\* The row call p inserted holds the run p was given.
HoldsRunOf(row, p) ==
    /\ row.repo = writer[p].run[1].repo
    /\ row.branch = writer[p].run[1].branch
    /\ row.score = writer[p].run[1].score
    /\ row.recorded_at = writer[p].now

\* The rows have distinct ids; a call that returned is in the table under the
\* id it returned; a call that raised has added nothing; after both calls
\* returned the table has two more rows than before, under distinct ids.
Persisted ==
    /\ \A i, j \in 1..Len(rows) : rows[i].id = rows[j].id => i = j
    /\ \A p \in Writers :
          writer[p].pc = "returned" =>
              \E i \in rows_before + 1 .. Len(rows) :
                  /\ rows[i].id = writer[p].result[1]
                  /\ HoldsRunOf(rows[i], p)
    /\ Len(rows) = rows_before
                   + Cardinality({p \in Writers : writer[p].pc \in {"close", "returned"}})
    /\ BothReturned =>
          /\ Len(rows) = rows_before + 2
          /\ writer[1].result # writer[2].result

C30_OwnCrashInput ==
    \A k \in 1..Len(results) :
        /\ (results[k].crashed /\ results[k].crash_input # None) =>
              results[k].crash_input[1].by = k
        /\ ~(results[k].crashed /\ results[k].timed_out)

====
